---- MODULE Spec2Model ----
(***************************************************************************)
(* The caching / aggregation layer of main_gui.py: the per-portal cache    *)
(* partitions of one (theme, SDG) signature, the aggregated "all"          *)
(* partition, and the functions that top them up from the portal scrapers. *)
(*                                                                         *)
(* Text is modelled as a sequence of one-character strings, so that        *)
(* slugify, lower(), substring search and the title ordering are computed  *)
(* and not assumed.  A deadline string is modelled by its shape and its    *)
(* numeric fields; parse_date_generic runs the format cascade over it.     *)
(***************************************************************************)
EXTENDS Integers, Sequences, FiniteSets, TLC

\* ------------------------------------------------------------------ bounds
\* engine calls explored per behaviour
MaxOps == 2
\* how many times the calendar day may advance in a behaviour
MaxDayJumps == 1

\* --------------------------------------------------------- program constants
\* the per-portal cap of load_portal_calls / load_all_calls
LIMIT == 10
\* a call is dropped when fewer than this many days remain
EXPIRY_DAYS == 7
\* scrape_eu_calls: at most this many listing pages
MAX_PAGES == 10
\* scrape_eu_calls: the loop gives up after this many empty pages
MAX_EMPTY == 5

\* ------------------------------------------------------------------- text
UpperCase == <<"A","B","C","D","E","F","G","H","I","J","K","L","M",
               "N","O","P","Q","R","S","T","U","V","W","X","Y","Z">>
LowerCase == <<"a","b","c","d","e","f","g","h","i","j","k","l","m",
               "n","o","p","q","r","s","t","u","v","w","x","y","z">>
Digits == <<"0","1","2","3","4","5","6","7","8","9">>

\* the characters of the model in code-point order
Ascii == <<" ", "(", ")">> \o Digits \o UpperCase \o <<"_">> \o LowerCase

Chars == {Ascii[i] : i \in 1..Len(Ascii)}

CodePoint == [c \in Chars |-> CHOOSE i \in 1..Len(Ascii) : Ascii[i] = c]

LowerOf == [c \in Chars |->
              IF \E i \in 1..26 : UpperCase[i] = c
              THEN LowerCase[CHOOSE i \in 1..26 : UpperCase[i] = c]
              ELSE c]

\* a sequence given as a function over 1..n, as a tuple
AsList(f) == f \o <<>>

\* a local variable: e is evaluated once and F is given its value
Let(e, F(_)) == CHOOSE r \in {F(x) : x \in {e}} : TRUE

\* str.lower()
Lower(s) == AsList([i \in 1..Len(s) |-> LowerOf[s[i]]])

\* str.replace(" ", "_")
ReplaceSpaces(s) == AsList([i \in 1..Len(s) |-> IF s[i] = " " THEN "_" ELSE s[i]])

IsSlugChar(c) ==
    \/ \E i \in 1..26 : LowerCase[i] = c
    \/ \E i \in 1..10 : Digits[i] = c
    \/ c = "_"

slugify(value) == SelectSeq(ReplaceSpaces(Lower(value)), IsSlugChar)

\* `a in b` for two strings
IsSubstring(a, b) ==
    \E k \in 0..(Len(b) - Len(a)) : \A i \in 1..Len(a) : b[k + i] = a[i]

\* a < b on strings, by code point
RECURSIVE StrLess(_, _)
StrLess(a, b) ==
    IF b = <<>> THEN FALSE
    ELSE IF a = <<>> THEN TRUE
    ELSE IF CodePoint[Head(a)] # CodePoint[Head(b)]
         THEN CodePoint[Head(a)] < CodePoint[Head(b)]
         ELSE StrLess(Tail(a), Tail(b))

EmptyStr == <<>>

\* ------------------------------------------------------------------ dates
IsLeap(y) == (y % 4 = 0 /\ y % 100 # 0) \/ y % 400 = 0

DaysInMonth(y, m) ==
    IF m = 2 THEN (IF IsLeap(y) THEN 29 ELSE 28)
    ELSE IF m \in {4, 6, 9, 11} THEN 30 ELSE 31

RECURSIVE DaysBeforeMonth(_, _)
DaysBeforeMonth(y, m) ==
    IF m = 1 THEN 0 ELSE DaysBeforeMonth(y, m - 1) + DaysInMonth(y, m - 1)

DaysBeforeYear(y) ==
    LET p == y - 1 IN p * 365 + (p \div 4) - (p \div 100) + (p \div 400)

\* datetime.date(y, m, d).toordinal()
Ordinal(y, m, d) == DaysBeforeYear(y) + DaysBeforeMonth(y, m) + d

ValidDate(y, m, d) ==
    /\ y \in 1..9999
    /\ m \in 1..12
    /\ d \in 1..DaysInMonth(y, m)

\* no date: the None of parse_date_generic
NoDate == 0 - 1

\* datetime.date.max
DateMax == Ordinal(9999, 12, 31)

\* ------------------------------------------------------- deadline strings
\* A deadline string, by shape: "" | free text | "10 March 2026" |
\* "10 Mar 2026" | "March 10, 2026" | "Mar 10, 2026" | "03/04/2026" |
\* "2026-03-05".  a and b are the two numeric fields in reading order
\* (the month is a number also where the text spells its name).
DateStr(shape, a, b, y) == [shape |-> shape, a |-> a, b |-> b, y |-> y]

NoDeadline == DateStr("empty", 0, 0, 0)
TextDeadline == DateStr("text", 0, 0, 0)

\* the formats of parse_date_generic, in the order they are tried
DateFormats == <<"%d %B %Y", "%d %b %Y", "%B %d %Y", "%b %d %Y",
                 "%d/%m/%Y", "%m/%d/%Y", "%Y-%m-%d">>

\* datetime.strptime(ds, fmt).date(), NoDate when it raises
Strptime(ds, fmt) ==
    LET dmy == IF ValidDate(ds.y, ds.b, ds.a) THEN Ordinal(ds.y, ds.b, ds.a) ELSE NoDate
        mdy == IF ValidDate(ds.y, ds.a, ds.b) THEN Ordinal(ds.y, ds.a, ds.b) ELSE NoDate
    IN  CASE fmt = "%d %B %Y" /\ ds.shape = "d B Y"  -> dmy
          [] fmt = "%d %b %Y" /\ ds.shape = "d b Y"  -> dmy
          [] fmt = "%B %d %Y" /\ ds.shape = "B d, Y" -> mdy
          [] fmt = "%b %d %Y" /\ ds.shape = "b d, Y" -> mdy
          [] fmt = "%d/%m/%Y" /\ ds.shape = "a/b/Y"  -> dmy
          [] fmt = "%m/%d/%Y" /\ ds.shape = "a/b/Y"  -> mdy
          [] fmt = "%Y-%m-%d" /\ ds.shape = "Y-m-d"  -> mdy
          [] OTHER -> NoDate

RECURSIVE TryFormats(_, _, _)
TryFormats(ds, formats, i) ==
    IF i > Len(formats) THEN NoDate
    ELSE IF Strptime(ds, formats[i]) # NoDate THEN Strptime(ds, formats[i])
    ELSE TryFormats(ds, formats, i + 1)

parse_date_generic(date_str) ==
    IF date_str.shape = "empty" THEN NoDate
    ELSE TryFormats(date_str, DateFormats, 1)

\* the deadline strings of the model
DeadlinePool == {
    NoDeadline, TextDeadline,
    DateStr("d B Y", 10, 3, 2026), DateStr("d B Y", 8, 3, 2026),
    DateStr("d B Y", 31, 2, 2026),
    DateStr("a/b/Y", 3, 4, 2026), DateStr("a/b/Y", 4, 13, 2026),
    DateStr("B d, Y", 3, 20, 2026), DateStr("Y-m-d", 3, 5, 2026) }

\* parse_date_generic over the pool, computed once
ParsedDeadline == [d \in DeadlinePool |-> parse_date_generic(d)]

\* a deadline test that only drops calls already closed
IsExpired_closed_only(call, today) ==
    LET d == ParsedDeadline[call.deadline_date]
    IN  d # NoDate /\ d - today < 0

\* a deadline test that also drops the calls closing in exactly seven days
IsExpired_seventh_day(call, today) ==
    LET d == ParsedDeadline[call.deadline_date]
    IN  d # NoDate /\ d - today <= EXPIRY_DAYS

\* a deadline test that drops the calls whose deadline cannot be read
IsExpired_undated(call, today) ==
    LET d == ParsedDeadline[call.deadline_date]
    IN  d = NoDate \/ d - today < EXPIRY_DAYS

\* (d - today).days < 7 for a parseable deadline
IsExpired(call, today) ==
    LET d == ParsedDeadline[call.deadline_date]
    IN  d # NoDate /\ d - today < EXPIRY_DAYS

\* the sort key (parse_date_generic(deadline) or date.max, title)
DeadlineKey(call) ==
    LET d == ParsedDeadline[call.deadline_date]
    IN  IF d = NoDate THEN DateMax ELSE d

KeyLess(c1, c2) ==
    \/ DeadlineKey(c1) < DeadlineKey(c2)
    \/ DeadlineKey(c1) = DeadlineKey(c2) /\ StrLess(c1.title, c2.title)

\* the first component of the sort key of every record of the list
DeadlineKeys(calls) == AsList([i \in 1..Len(calls) |-> DeadlineKey(calls[i])])

\* the place every record takes in the sorted list: sorted() is stable, so
\* the place of calls[i] is one more than the number of records with a
\* smaller key, or with an equal key and an earlier position
Places(calls, day) ==
    AsList([i \in 1..Len(calls) |-> 1 + Cardinality({j \in 1..Len(calls) :
        \/ day[j] < day[i]
        \/ /\ day[j] = day[i]
           /\ \/ StrLess(calls[j].title, calls[i].title)
              \/ j < i /\ ~StrLess(calls[i].title, calls[j].title)})])

Arrange(calls, place) ==
    AsList([r \in 1..Len(calls) |-> calls[CHOOSE i \in 1..Len(calls) : place[i] = r]])

\* a list handed back in the order it was built
SortCalls_unsorted(calls) == calls

\* sorted(calls, key=lambda c: (parse_date_generic(...) or date.max, title))
SortCalls(calls) ==
    Let(calls, LAMBDA c :
    Let(DeadlineKeys(c), LAMBDA day :
    Let(Places(c, day), LAMBDA place : Arrange(c, place))))

\* a slice that was left out
Take_everything(calls, n) == calls

\* calls[:n]
Take(calls, n) == SubSeq(calls, 1, IF Len(calls) < n THEN Len(calls) ELSE n)

\* the keyword test of every filtering loop
MatchesKeyword(call, keyword) ==
    \/ keyword = EmptyStr
    \/ IsSubstring(Lower(keyword), Lower(call.title))
    \/ IsSubstring(Lower(keyword), Lower(call.description))

\* the SDG test of every filtering loop
MatchesOds(call, ods_number) ==
    \/ ods_number = EmptyStr
    \/ \E i \in 1..Len(call.ods_list) : call.ods_list[i] = ods_number

\* ---------------------------------------------------------------- portals
EuropeanCommission == <<"E","u","r","o","p","e","a","n"," ","C","o","m","m","i","s","s","i","o","n">>
Wellcome == <<"W","e","l","l","c","o","m","e">>
AcademyOfFinland == <<"A","c","a","d","e","m","y"," ","o","f"," ","F","i","n","l","a","n","d">>
ANR == <<"A","N","R">>
IBRO == <<"I","B","R","O">>
IDRC == <<"I","D","R","C">>

\* portal_map of load_all_calls, in iteration order
PortalOrder == <<EuropeanCommission, Wellcome, AcademyOfFinland, ANR, IBRO, IDRC>>

PortalNames == {PortalOrder[i] : i \in 1..Len(PortalOrder)}

PortalIndex(portal_name) == CHOOSE i \in 1..Len(PortalOrder) : PortalOrder[i] = portal_name

\* the "site" each scraper writes into its records
ScraperSite == [p \in PortalNames |->
                  IF p = AcademyOfFinland THEN <<"A","K","A">> ELSE p]

\* the default of row.get("site", "EU")
SiteEU == <<"E","U">>

SiteNames == {ScraperSite[p] : p \in PortalNames} \cup PortalNames \cup {SiteEU, EmptyStr}

\* slugify over the site names, computed once
SlugOf == [s \in SiteNames |-> slugify(s)]

AllSlug == <<"a","l","l">>

\* theme_slug when no theme is selected; the theme is fixed to "" here
NoSelect == <<"n","o","_","s","e","l","e","c","t">>

\* the partitions of the signature: one per portal, and "all"
Partitions == {SlugOf[p] : p \in PortalNames} \cup {AllSlug}

\* --------------------------------------------------------------- records
Unknown == <<"u","n","k","n","o","w","n">>

Call(title, link, deadline_date, description, ods_list, site) ==
    [title |-> title, link |-> link, opening_date |-> NoDeadline,
     deadline_date |-> deadline_date, description |-> description,
     ods_list |-> ods_list, site |-> site]

NoLink == <<>>

TitlePool == <<<<"A","I">>, <<"B","i","o">>, <<"a","i","r">>, <<"Z">>>>
DescriptionPool == <<<<"x">>, <<"y">>, <<"t","h","e"," ","A","I">>>>
OdsPool == <<<<<<"3">>>>, <<<<"3">>, <<"7">>>>, <<<<"1","3">>>>, <<Unknown>>>>

\* the keyword and the SDG number a search may carry
KeywordAI == <<"a","i">>
Ods3 == <<"3">>

\* the number of calls every portal's listing page shows
ListingLen == 16
\* the length of a listing that has only just opened
ShortLen == 4

\* first day of the model: 1 March 2026
Day0 == Ordinal(2026, 3, 1)

DeadlineCycle == <<DateStr("d B Y", 10, 3, 2026), DateStr("Y-m-d", 3, 5, 2026),
                   DateStr("a/b/Y", 3, 4, 2026), NoDeadline,
                   DateStr("a/b/Y", 4, 13, 2026), TextDeadline,
                   DateStr("d B Y", 8, 3, 2026), DateStr("B d, Y", 3, 20, 2026)>>

\* the link of the i-th call of a listing: the 5th is a call mirrored on
\* every portal, the 9th repeats the link of the 1st, the 11th has no link
LinkAt(portal_name, i) ==
    IF i = 5 THEN <<0, 1>>
    ELSE IF i = 9 THEN <<PortalIndex(portal_name), 1>>
    ELSE IF i = 11 THEN NoLink
    ELSE <<PortalIndex(portal_name), i>>

\* the i-th call of the portal's listing, summarised and classified
ListedCall(portal_name, i) ==
    Call(TitlePool[(i % 4) + 1], LinkAt(portal_name, i),
         DeadlineCycle[((i - 1) % 8) + 1], DescriptionPool[(i % 3) + 1],
         OdsPool[(i % 4) + 1], ScraperSite[portal_name])

Listing == [p \in PortalNames |-> AsList([i \in 1..ListingLen |-> ListedCall(p, i)])]

\* what the portals serve when a scraper runs
Webs == {"full", "short", "raw", "down"}

\* --------------------------------------------------------- cache files
\* ", ".join(ods_list)
RECURSIVE JoinOds(_)
JoinOds(ods_list) ==
    IF ods_list = <<>> THEN <<>>
    ELSE IF Len(ods_list) = 1 THEN ods_list[1]
    ELSE ods_list[1] \o <<",", " ">> \o JoinOds(Tail(ods_list))

\* str.split(",")
RECURSIVE SplitComma(_, _, _)
SplitComma(cell, i, piece) ==
    IF i > Len(cell) THEN <<piece>>
    ELSE IF cell[i] = "," THEN <<piece>> \o SplitComma(cell, i + 1, <<>>)
    ELSE SplitComma(cell, i + 1, Append(piece, cell[i]))

\* str.strip()
RECURSIVE Strip(_)
Strip(s) ==
    IF s = <<>> THEN s
    ELSE IF Head(s) = " " THEN Strip(Tail(s))
    ELSE IF s[Len(s)] = " " THEN Strip(SubSeq(s, 1, Len(s) - 1))
    ELSE s

NonEmpty(s) == s # <<>>

\* [x.strip() for x in cell.split(",") if x.strip()] or ["unknown"]
ParseOds(cell) ==
    LET pieces == SplitComma(cell, 1, <<>>)
        stripped == SelectSeq(AsList([i \in 1..Len(pieces) |-> Strip(pieces[i])]), NonEmpty)
    IN  IF stripped = <<>> THEN <<Unknown>> ELSE stripped

\* the row writer.writerow() stores for a call
RowOf(call) ==
    [title |-> call.title, link |-> call.link, opening_date |-> call.opening_date,
     deadline_date |-> call.deadline_date, description |-> call.description,
     ods_classification |-> JoinOds(call.ods_list), site |-> call.site]

\* the record load_cache builds from a row
CallOf(row) ==
    [title |-> row.title, link |-> row.link, opening_date |-> row.opening_date,
     deadline_date |-> row.deadline_date, description |-> row.description,
     ods_list |-> ParseOds(row.ods_classification), site |-> row.site]

\* a row that has every column of the header; csv.DictReader gives the
\* columns a short row lacks the value None
RowComplete(row) == "ods_classification" \in DOMAIN row

\* load_cache(site_slug, theme_slug, ods): the rows of the file as records;
\* None.split(",") raises inside the try that encloses the loop, and the
\* handler returns []
load_cache(files, site_slug) ==
    IF \E i \in 1..Len(files[site_slug]) : ~RowComplete(files[site_slug][i])
    THEN <<>>
    ELSE AsList([i \in 1..Len(files[site_slug]) |-> CallOf(files[site_slug][i])])

\* a writer that opens the file in append mode
save_cache_append(files, site_slug, calls) ==
    [files EXCEPT ![site_slug] = @ \o AsList([i \in 1..Len(calls) |-> RowOf(calls[i])])]

\* save_cache(site_slug, theme_slug, ods, calls): the file is rewritten
save_cache(files, site_slug, calls) ==
    [files EXCEPT ![site_slug] = AsList([i \in 1..Len(calls) |-> RowOf(calls[i])])]

Links(calls) == {calls[i].link : i \in 1..Len(calls)}

\* a loop that tests the deadline only
Rejected_expiry_only(call, q) == IsExpired(call, q.today)

\* the three tests every filtering loop applies to a record
Rejected(call, q) ==
    \/ IsExpired(call, q.today)
    \/ ~MatchesOds(call, q.ods_number)
    \/ ~MatchesKeyword(call, q.keyword)

\* a loop over the cached records that leaves the keyword test out
FilterCached_any_keyword(calls, cap, q) ==
    Take(SelectSeq(calls, LAMBDA c : ~IsExpired(c, q.today) /\ MatchesOds(c, q.ods_number)),
         cap)

\* the loop over the cached records: the valid ones are kept, in file
\* order, until there are cap of them (their links are collected in
\* seen_links, never tested)
FilterCached(calls, cap, q) ==
    Take(SelectSeq(calls, LAMBDA c : ~Rejected(c, q)), cap)

\* a test that asks for one record more than the cap
CacheHit_one_more(filtered, cap) == Len(filtered) > cap

\* `if len(filtered) >= cap`: the cache alone answers the search
CacheHit(filtered, cap) == Len(filtered) >= cap

\* filtered.append(call); seen_links.add(link) for every call whose link
\* is not in seen_links, until there are cap records
RECURSIVE AddNew(_, _, _, _)
AddNew(calls, i, acc, cap) ==
    IF i > Len(calls) \/ Len(acc) >= cap THEN acc
    ELSE Let(IF calls[i].link \in Links(acc) THEN acc ELSE Append(acc, calls[i]),
             LAMBDA a : AddNew(calls, i + 1, a, cap))

\* the loop over the records of the "all" file in load_portal_calls
Backfill(all_calls, acc, cap, portal_slug, q) ==
    Let(SelectSeq(all_calls, LAMBDA c : SlugOf[c.site] = portal_slug /\ ~Rejected(c, q)),
        LAMBDA own : AddNew(own, 1, acc, cap))

\* the loop over the scraper's calls
AcceptNew(new_calls, acc, cap, q) ==
    Let(SelectSeq(new_calls, LAMBDA c : c.link # NoLink /\ ~Rejected(c, q)),
        LAMBDA fresh : AddNew(fresh, 1, acc, cap))

\* --------------------------------------------------------------- scrapers
\* the formats a portal scraper tries on the deadline it reads
ScraperFormats == <<"%d %B %Y", "%d %b %Y">>

ScraperParsed == [d \in DeadlinePool |-> TryFormats(d, ScraperFormats, 1)]

\* the loop of a portal scraper over the listing: the scraper's own
\* deadline test, the SDG and keyword filters, at most max_results calls
ScrapeListing(listing, max_results, q) ==
    Take(SelectSeq(listing, LAMBDA c :
            /\ \/ ScraperParsed[c.deadline_date] = NoDate
               \/ ScraperParsed[c.deadline_date] - q.today >= EXPIRY_DAYS
            /\ MatchesOds(c, q.ods_number)
            /\ MatchesKeyword(c, q.keyword)),
         max_results)

\* a portal scraper (Wellcome, AKA, ANR, IBRO, IDRC) as the engine sees it:
\* the calls it returns, or the exception it lets through.  "raw" is a
\* scraper function that hands back the whole listing, unfiltered.
scrape_portal_calls(files, portal_name, q, max_results, web) ==
    IF max_results <= 0 THEN [files |-> files, calls |-> <<>>, raised |-> FALSE]
    ELSE IF web = "down" THEN [files |-> files, calls |-> <<>>, raised |-> TRUE]
    ELSE [files |-> files, raised |-> FALSE,
          calls |-> CASE web = "raw" -> Listing[portal_name]
                      [] web = "short" ->
                           ScrapeListing(Take(Listing[portal_name], ShortLen), max_results, q)
                      [] OTHER ->
                           ScrapeListing(Listing[portal_name], max_results, q)]

\* get_calls_page(driver, theme, page_number) of the EU portal: the whole
\* listing fits the first page; "raw" is a portal that ignores pageNumber;
\* "empty" is a portal whose every page shows no call, "stale" one whose
\* every page shows a call about to close and a call without a link
get_calls_page(web, page_num) ==
    CASE web = "raw" -> Listing[EuropeanCommission]
      [] web = "short" /\ page_num = 1 -> Take(Listing[EuropeanCommission], ShortLen)
      [] web = "full" /\ page_num = 1 -> Listing[EuropeanCommission]
      [] web = "stale" -> <<ListedCall(EuropeanCommission, 2),
                            ListedCall(EuropeanCommission, 11)>>
      [] OTHER -> <<>>

\* a page loop that keeps requesting pages when it has the calls it needs
RECURSIVE EuPageLoop_ignores_needed(_, _, _, _, _, _, _)
EuPageLoop_ignores_needed(page_num, consecutive_empty, acc, trail, max_results, q, web) ==
    IF consecutive_empty >= MAX_EMPTY \/ page_num > MAX_PAGES
    THEN [calls |-> acc, trail |-> trail]
    ELSE IF get_calls_page(web, page_num) = <<>>
         THEN EuPageLoop_ignores_needed(page_num + 1, consecutive_empty + 1, acc,
                                        Append(trail, Len(acc)), max_results, q, web)
         ELSE Let(AcceptNew(get_calls_page(web, page_num), acc, max_results, q),
                  LAMBDA a : EuPageLoop_ignores_needed(page_num + 1, consecutive_empty, a,
                                                       Append(trail, Len(a)), max_results,
                                                       q, web))

\* the page loop of scrape_eu_calls; acc is filtered_cache + new_calls, and
\* trail has one entry for every page requested: len(acc) after the page
RECURSIVE EuPageLoop(_, _, _, _, _, _, _)
EuPageLoop(page_num, consecutive_empty, acc, trail, max_results, q, web) ==
    IF \/ Len(acc) >= max_results
       \/ consecutive_empty >= MAX_EMPTY
       \/ page_num > MAX_PAGES
    THEN [calls |-> acc, trail |-> trail]
    ELSE IF get_calls_page(web, page_num) = <<>>
         THEN EuPageLoop(page_num + 1, consecutive_empty + 1, acc,
                         Append(trail, Len(acc)), max_results, q, web)
         ELSE Let(AcceptNew(get_calls_page(web, page_num), acc, max_results, q),
                  LAMBDA a : EuPageLoop(page_num + 1, consecutive_empty, a,
                                        Append(trail, Len(a)), max_results, q, web))

scrape_eu_calls(files, q, max_results, web) ==
    IF max_results <= 0
    THEN [files |-> files, calls |-> <<>>, raised |-> FALSE, pages |-> <<>>]
    ELSE
    Let(FilterCached(load_cache(files, SlugOf[EuropeanCommission]), max_results, q),
        LAMBDA filtered_cache :
    IF CacheHit(filtered_cache, max_results)
    THEN [files |-> files, raised |-> FALSE, pages |-> <<>>,
          calls |-> SortCalls(Take(filtered_cache, max_results))]
    ELSE IF web = "down"
    THEN [files |-> files, calls |-> <<>>, raised |-> TRUE, pages |-> <<>>]
    ELSE
    Let(EuPageLoop(1, 0, filtered_cache, <<>>, max_results, q, web), LAMBDA loop :
        [files |-> save_cache(files, SlugOf[EuropeanCommission], loop.calls),
         raised |-> FALSE, pages |-> loop.trail,
         calls |-> Take(SortCalls(loop.calls), max_results)]))

\* the scraper function the GUI pairs with the portal
scraper_func(files, portal_name, q, max_results, web) ==
    IF portal_name = EuropeanCommission
    THEN scrape_eu_calls(files, q, max_results, web)
    ELSE scrape_portal_calls(files, portal_name, q, max_results, web)

\* one invocation of a scraper function, as recorded for the last call
Invocation(portal_name, max_results, new_calls) ==
    [portal |-> portal_name, max_results |-> max_results, returned |-> Len(new_calls)]

\* ----------------------------------------------------------------- engine
\* the outcome of an engine call: the files afterwards, the list returned,
\* whether an exception reached the caller, the scraper invocations made
Outcome(files, ret, raised, scraped) ==
    [files |-> files, ret |-> ret, raised |-> raised, scraped |-> scraped]

\* the calls of a portal once its scraper has been asked for `needed` more
TopUp(files, portal_name, filtered_portal, needed, q, web) ==
    Let(scraper_func(files, portal_name, q, needed, web), LAMBDA scraped :
        [files |-> scraped.files, raised |-> scraped.raised,
         calls |-> AcceptNew(scraped.calls, filtered_portal, LIMIT, q),
         scraped |-> <<Invocation(portal_name, needed, scraped.calls)>>])

\* sorted(), the two save_cache calls and the return of load_portal_calls
SavePortal(files, portal_slug, filtered_portal, invoked) ==
    Let(SortCalls(filtered_portal), LAMBDA sorted_portal :
    Let(save_cache(files, portal_slug, sorted_portal), LAMBDA saved :
    Let(SelectSeq(load_cache(saved, AllSlug), LAMBDA c : SlugOf[c.site] # portal_slug),
        LAMBDA remaining :
        Outcome(save_cache(saved, AllSlug, remaining \o sorted_portal),
                Take(sorted_portal, LIMIT), FALSE, invoked))))

load_portal_calls(files, portal_name, q, web, scrape_if_needed) ==
    Let(SlugOf[portal_name], LAMBDA portal_slug :
    Let(FilterCached(load_cache(files, portal_slug), LIMIT, q), LAMBDA cached_valid :
    IF CacheHit(cached_valid, LIMIT)
    THEN Outcome(files, Take(SortCalls(cached_valid), LIMIT), FALSE, <<>>)
    ELSE
    Let(Backfill(load_cache(files, AllSlug), cached_valid, LIMIT, portal_slug, q),
        LAMBDA filtered_portal :
    IF LIMIT - Len(filtered_portal) > 0 /\ scrape_if_needed
    THEN Let(TopUp(files, portal_name, filtered_portal, LIMIT - Len(filtered_portal), q, web),
             LAMBDA t :
             IF t.raised THEN Outcome(t.files, <<>>, TRUE, t.scraped)
             ELSE SavePortal(t.files, portal_slug, t.calls, t.scraped))
    ELSE SavePortal(files, portal_slug, filtered_portal, <<>>))))

\* the body of the loop of load_all_calls for the i-th portal, then the rest
RECURSIVE LoadAllFrom(_, _, _, _, _, _)
LoadAllFrom(i, files, aggregated, invoked, q, web) ==
    IF i > Len(PortalOrder)
    THEN Outcome(save_cache(files, AllSlug, aggregated), SortCalls(aggregated), FALSE, invoked)
    ELSE
    Let(FilterCached(load_cache(files, SlugOf[PortalOrder[i]]), LIMIT, q), LAMBDA cached_valid :
    Let(IF ~CacheHit(cached_valid, LIMIT)
        THEN TopUp(files, PortalOrder[i], cached_valid, LIMIT - Len(cached_valid), q, web)
        ELSE [files |-> files, raised |-> FALSE, calls |-> cached_valid, scraped |-> <<>>],
        LAMBDA t :
    IF t.raised THEN Outcome(t.files, <<>>, TRUE, invoked \o t.scraped)
    ELSE
    Let(Take(SortCalls(t.calls), LIMIT), LAMBDA sorted_portal :
    Let(save_cache(t.files, SlugOf[PortalOrder[i]], sorted_portal), LAMBDA saved :
    Let(aggregated \o sorted_portal, LAMBDA extended :
        LoadAllFrom(i + 1, saved, extended, invoked \o t.scraped, q, web))))))

\* an "all" search that cuts the merged list at the per-portal cap
load_all_calls_capped(files, q, web) ==
    Let(LoadAllFrom(1, files, <<>>, <<>>, q, web), LAMBDA o :
        Outcome(o.files, Take(o.ret, LIMIT), o.raised, o.scraped))

load_all_calls(files, q, web) == LoadAllFrom(1, files, <<>>, <<>>, q, web)

cached_scrape(files, site_name, q, max_results, web) ==
    IF max_results <= 0 THEN Outcome(files, <<>>, FALSE, <<>>)
    ELSE
    Let(FilterCached(load_cache(files, SlugOf[site_name]), max_results, q),
        LAMBDA filtered_cache :
    IF CacheHit(filtered_cache, max_results)
    THEN Outcome(files, Take(SortCalls(filtered_cache), max_results), FALSE, <<>>)
    ELSE
    Let(scraper_func(files, site_name, q, max_results, web), LAMBDA scraped :
    IF scraped.raised
    THEN Outcome(scraped.files, <<>>, TRUE, <<Invocation(site_name, max_results, scraped.calls)>>)
    ELSE
    Let(AcceptNew(scraped.calls, filtered_cache, max_results, q), LAMBDA combined :
        Outcome(save_cache(scraped.files, SlugOf[site_name], combined),
                Take(SortCalls(combined), max_results), FALSE,
                <<Invocation(site_name, max_results, scraped.calls)>>))))

\* ---------------------------------------------------------- national mode
\* MINISTRY_OPTIONS without "All" ("MinEnergia" and "MinEducacion" carry an
\* accent in the source)
MinistryOrder == <<"MinEnergia", "MinAmbiente", "MinCiencias", "MinCultura",
                   "MinTIC", "MinEducacion">>

Ministries == {MinistryOrder[i] : i \in 1..Len(MinistryOrder)}

MINISTRY_SLUGS == [m \in Ministries |->
    CASE m = "MinEnergia" -> "minenergia" [] m = "MinAmbiente" -> "minambiente"
      [] m = "MinCiencias" -> "minciencias" [] m = "MinCultura" -> "mincultura"
      [] m = "MinTIC" -> "mintic" [] m = "MinEducacion" -> "mineducacion"]

\* CALLTYPE_OPTIONS ("Regalias" is spelled with an accent in the source)
CallTypes == {"All", "Regalias", "Proyectos"}

CALLTYPE_SLUGS == [t \in CallTypes |->
    CASE t = "All" -> "no_select" [] t = "Regalias" -> "regalias"
      [] t = "Proyectos" -> "proyectos"]

\* the "type" every ministry's scraper writes; the literal of the
\* MinAmbiente scraper is a mis-encoded spelling of the call type
MinistryType == [m \in Ministries |->
    CASE m \in {"MinEnergia", "MinCiencias"} -> "Regalias"
      [] m = "MinAmbiente" -> "RegalA-as"
      [] OTHER -> "Proyectos"]

MinistryIndex(ministry) == CHOOSE i \in 1..Len(MinistryOrder) : MinistryOrder[i] = ministry

\* the i-th call a ministry's page lists, as its scraper builds it (ods_list
\* is classify_ods(description))
MinistryCall(ministry, i) ==
    [title |-> TitlePool[(i % 4) + 1],
     link |-> IF i = 9 THEN <<10 + MinistryIndex(ministry), 1>>
              ELSE IF i = 11 THEN NoLink
              ELSE <<10 + MinistryIndex(ministry), i>>,
     opening_date |-> NoDeadline,
     deadline_date |-> DeadlineCycle[((i - 1) % 8) + 1],
     description |-> DescriptionPool[(i % 3) + 1],
     ods_list |-> OdsPool[(i % 4) + 1], site |-> ministry,
     type |-> MinistryType[ministry]]

MinistryListing == [m \in Ministries |->
    AsList([i \in 1..ListingLen |-> MinistryCall(m, i)])]

\* a ministry scraper: it stops at max_results and filters nothing; a page
\* that cannot be fetched gives an empty list; "raw" is a scraper that
\* ignores max_results
ministry_scraper(ministry, max_results, web) ==
    CASE web = "down" -> <<>>
      [] web = "raw" -> MinistryListing[ministry]
      [] web = "short" -> Take(Take(MinistryListing[ministry], ShortLen), max_results)
      [] OTHER -> Take(MinistryListing[ministry], max_results)

NationalFiles == {<<MINISTRY_SLUGS[m], CALLTYPE_SLUGS[t]>> : m \in Ministries, t \in CallTypes}

\* load_national_cache(ministry_slug, calltype_slug)
load_national_cache(nfiles, file) ==
    AsList([i \in 1..Len(nfiles[file]) |->
        [title |-> nfiles[file][i].title, link |-> nfiles[file][i].link,
         opening_date |-> nfiles[file][i].opening_date,
         deadline_date |-> nfiles[file][i].deadline_date,
         description |-> nfiles[file][i].description,
         ods_list |-> SplitComma(nfiles[file][i].ods_classification, 1, <<>>),
         site |-> nfiles[file][i].site, type |-> nfiles[file][i].type]])

\* the row save_national_cache writes for a call
NationalRowOf(call) ==
    [title |-> call.title, link |-> call.link, opening_date |-> call.opening_date,
     deadline_date |-> call.deadline_date, description |-> call.description,
     ods_classification |-> JoinOds(call.ods_list),
     site |-> call.site, type |-> call.type]

\* save_national_cache(ministry_slug, calltype_slug, calls)
save_national_cache(nfiles, file, calls) ==
    [nfiles EXCEPT ![file] = AsList([i \in 1..Len(calls) |-> NationalRowOf(calls[i])])]

\* a test that looks at the deadline only
NationalRejected_any_type(call, call_type, today) == IsExpired(call, today)

\* the two tests of the loops of load_national_calls
NationalRejected(call, call_type, today) ==
    \/ IsExpired(call, today)
    \/ call_type # "All" /\ call.type # call_type

load_national_calls(nfiles, ministry, call_type, today, web, scrape_if_needed) ==
    Let(<<MINISTRY_SLUGS[ministry], CALLTYPE_SLUGS[call_type]>>, LAMBDA file :
    Let(Take(SelectSeq(load_national_cache(nfiles, file),
                       LAMBDA c : ~NationalRejected(c, call_type, today)), LIMIT),
        LAMBDA filtered_calls :
    IF CacheHit(filtered_calls, LIMIT) \/ ~scrape_if_needed
    THEN Outcome(nfiles, Take(SortCalls(filtered_calls), LIMIT), FALSE, <<>>)
    ELSE
    Let(ministry_scraper(ministry, LIMIT - Len(filtered_calls), web), LAMBDA new_calls :
    Let(AddNew(SelectSeq(new_calls, LAMBDA c :
                   c.link # NoLink /\ ~NationalRejected(c, call_type, today)),
               1, filtered_calls, LIMIT),
        LAMBDA combined_calls :
        Outcome(save_national_cache(nfiles, file, combined_calls),
                Take(SortCalls(combined_calls), LIMIT), FALSE,
                <<Invocation(ministry, LIMIT - Len(filtered_calls), new_calls)>>)))))

\* the loop of load_all_national_calls from the i-th ministry on
RECURSIVE LoadAllNationalFrom(_, _, _, _, _, _, _)
LoadAllNationalFrom(i, nfiles, aggregated, invoked, call_type, today, web) ==
    IF i > Len(MinistryOrder)
    THEN Outcome(nfiles, SortCalls(aggregated), FALSE, invoked)
    ELSE Let(load_national_calls(nfiles, MinistryOrder[i], call_type, today, web, TRUE),
             LAMBDA o :
         Let(aggregated \o o.ret, LAMBDA extended :
             LoadAllNationalFrom(i + 1, o.files, extended, invoked \o o.scraped,
                                 call_type, today, web)))

load_all_national_calls(nfiles, call_type, today, web) ==
    LoadAllNationalFrom(1, nfiles, <<>>, <<>>, call_type, today, web)

\* ------------------------------------------- all_scraper_gui.py: on_search
\* at most this many results of one site
PER_SITE == 5
\* ThreadPoolExecutor(max_workers=min(5, ...))
MAX_WORKERS == 5

SiteAKA == <<"A","K","A">>

\* the keys of source_count
GuiSites == {SiteEU, Wellcome, SiteAKA, ANR, IBRO, IDRC}

\* the sites scraped after the EU portal, with the portal of each scraper
OtherSites == <<[site |-> Wellcome, portal |-> Wellcome],
                [site |-> SiteAKA, portal |-> AcademyOfFinland],
                [site |-> ANR, portal |-> ANR],
                [site |-> IBRO, portal |-> IBRO],
                [site |-> IDRC, portal |-> IDRC]>>

\* strptime(deadline_str, "%d %B %Y"), the only format on_search tries
GuiParsed == [d \in DeadlinePool |-> Strptime(d, "%d %B %Y")]

GuiExpired(deadline_str, day) ==
    GuiParsed[deadline_str] # NoDate /\ GuiParsed[deadline_str] - day < EXPIRY_DAYS

\* ",".join(ods_list)
RECURSIVE GuiJoinOds(_)
GuiJoinOds(ods_list) ==
    IF ods_list = <<>> THEN <<>>
    ELSE IF Len(ods_list) = 1 THEN ods_list[1]
    ELSE ods_list[1] \o <<",">> \o GuiJoinOds(Tail(ods_list))

\* cell.replace(" ", "").split(",") if cell else []
GuiParseOds(cell) ==
    IF cell = <<>> THEN <<>>
    ELSE SplitComma(SelectSeq(cell, LAMBDA c : c # " "), 1, <<>>)

\* the row of the cache file of on_search: it has no "site" column
GuiRowOf(item) ==
    [title |-> item.title, link |-> item.link, opening_date |-> item.opening_date,
     deadline_date |-> item.deadline_date, description |-> item.description,
     ods_classification |-> GuiJoinOds(item.ods_list)]

Titles(items) == {items[i].title : i \in 1..Len(items)}

\* the lists and counters of a running search
GuiState(final_data, cached_results, source_count, needed) ==
    [final_data |-> final_data, cached_results |-> cached_results,
     source_count |-> source_count, needed |-> needed]

\* the loop over the rows of the cache file
RECURSIVE GuiLoadCache(_, _, _, _)
GuiLoadCache(rows, i, st, q) ==
    IF i > Len(rows) THEN st
    ELSE Let(GuiParseOds(rows[i].ods_classification), LAMBDA ods_list :
         IF \/ GuiExpired(rows[i].deadline_date, q.today)
            \/ q.ods_number # EmptyStr /\ ~(\E k \in 1..Len(ods_list) : ods_list[k] = q.ods_number)
            \/ /\ q.keyword # EmptyStr
               /\ ~IsSubstring(q.keyword, Lower(rows[i].title))
               /\ ~IsSubstring(q.keyword, Lower(rows[i].description))
            \/ st.source_count[SiteEU] >= PER_SITE
         THEN GuiLoadCache(rows, i + 1, st, q)
         ELSE Let([st EXCEPT
                     !.source_count[SiteEU] = @ + 1,
                     !.cached_results = Append(@,
                        [title |-> rows[i].title, link |-> rows[i].link,
                         opening_date |-> rows[i].opening_date,
                         deadline_date |-> rows[i].deadline_date,
                         description |-> rows[i].description,
                         ods_list |-> IF ods_list = <<>> THEN <<Unknown>> ELSE ods_list,
                         site |-> SiteEU])],
                  LAMBDA t : GuiLoadCache(rows, i + 1, t, q)))

\* the cached results go to final_data, up to the limit, one per title
RECURSIVE GuiTakeCached(_, _, _, _)
GuiTakeCached(items, i, final_data, results_limit) ==
    IF i > Len(items) \/ Len(final_data) >= results_limit THEN final_data
    ELSE Let(IF items[i].title \in Titles(final_data) THEN final_data
             ELSE Append(final_data, items[i]),
             LAMBDA f : GuiTakeCached(items, i + 1, f, results_limit))

\* append_call(item, site_name)
append_call(st, item, site_name) ==
    IF \/ st.needed <= 0
       \/ st.source_count[site_name] >= PER_SITE
       \/ item.title \in Titles(st.final_data)
    THEN st
    ELSE [final_data |-> Append(st.final_data, item),
          cached_results |-> Append(st.cached_results, item),
          source_count |-> [st.source_count EXCEPT ![site_name] = @ + 1],
          needed |-> st.needed - 1]

\* the candidate test of the loop over a listing page
GuiCandidate(item, seen_titles, q) ==
    /\ item.title \notin seen_titles
    /\ ~GuiExpired(item.deadline_date, q.today)
    /\ (q.keyword # EmptyStr /\ q.ods_number = EmptyStr)
       => IsSubstring(q.keyword, Lower(item.title))

\* the listing pages the EU portal serves to on_search
GuiWebs == {"full", "short"}

\* the page loop of on_search up to the next batch handed to the pool:
\* the batch, or no batch when the loop has ended
RECURSIVE GuiPages(_, _, _, _, _, _)
GuiPages(page_number, candidates, st, max_batch, q, web) ==
    IF ~(st.needed > 0 /\ st.source_count[SiteEU] < PER_SITE)
    THEN [batch |-> <<>>, page_number |-> page_number]
    ELSE IF get_calls_page(web, page_number) = <<>>
    THEN [batch |-> <<>>, page_number |-> page_number]
    ELSE Let(Take(candidates \o SelectSeq(get_calls_page(web, page_number),
                      LAMBDA c : GuiCandidate(c, Titles(st.final_data), q)), max_batch),
             LAMBDA cands :
             IF Len(cands) >= max_batch
             THEN [batch |-> cands, page_number |-> page_number]
             ELSE GuiPages(page_number + 1, cands, st, max_batch, q, web))

\* the body of `for future in as_completed(...)` for one candidate
GuiCollect(st, cand, q) ==
    IF \/ q.ods_number # EmptyStr /\ ~MatchesOds(cand, q.ods_number)
       \/ /\ q.keyword # EmptyStr /\ q.ods_number # EmptyStr
          /\ ~IsSubstring(q.keyword, Lower(cand.title))
          /\ ~IsSubstring(q.keyword, Lower(cand.description))
    THEN st
    ELSE append_call(st, [cand EXCEPT !.site = SiteEU], SiteEU)

\* append_call over a list of results of one site
RECURSIVE GuiAppendAll(_, _, _, _)
GuiAppendAll(results, i, st, site_name) ==
    IF i > Len(results) \/ st.needed <= 0 \/ st.source_count[site_name] >= PER_SITE
    THEN st
    ELSE Let(append_call(st, [results[i] EXCEPT !.site = site_name], site_name),
             LAMBDA t : GuiAppendAll(results, i + 1, t, site_name))

\* the loop over the other sites, from the i-th on (these scrapers read and
\* write no cache file)
RECURSIVE GuiOtherSites(_, _, _, _)
GuiOtherSites(i, st, q, web) ==
    IF i > Len(OtherSites) THEN st
    ELSE IF st.needed <= 0 \/ st.source_count[OtherSites[i].site] >= PER_SITE
    THEN GuiOtherSites(i + 1, st, q, web)
    ELSE
    Let(scrape_portal_calls(<<>>, OtherSites[i].portal, q,
            IF PER_SITE - st.source_count[OtherSites[i].site] < st.needed
            THEN PER_SITE - st.source_count[OtherSites[i].site] ELSE st.needed, web).calls,
        LAMBDA results :
    Let(SelectSeq(results, LAMBDA r :
            /\ MatchesOds(r, q.ods_number)
            /\ (q.keyword # EmptyStr /\ q.ods_number # EmptyStr)
               => \/ IsSubstring(q.keyword, Lower(r.title))
                  \/ IsSubstring(q.keyword, Lower(r.description))),
        LAMBDA kept :
    Let(GuiAppendAll(kept, 1, st, OtherSites[i].site), LAMBDA t :
        GuiOtherSites(i + 1, t, q, web))))

\* the futures handled in the order they were submitted
RECURSIVE GuiPoolInOrder(_, _, _, _)
GuiPoolInOrder(candidates, i, st, q) ==
    IF i > Len(candidates) THEN st
    ELSE Let(GuiCollect(st, candidates[i], q), LAMBDA t :
             IF t.needed <= 0 \/ t.source_count[SiteEU] >= PER_SITE THEN t
             ELSE GuiPoolInOrder(candidates, i + 1, t, q))

\* max_batch = results_limit * 3 if results_limit > 0 else 30
MaxBatch(results_limit) == IF results_limit > 0 THEN results_limit * 3 ELSE 30

\* a search that is not running
GuiIdle ==
    [phase |-> "idle", results_limit |-> 0, web |-> "none", today |-> 0,
     page_number |-> 0, candidates |-> <<>>, pending |-> {},
     st |-> GuiState(<<>>, <<>>, [x \in GuiSites |-> 0], 0),
     start |-> GuiState(<<>>, <<>>, [x \in GuiSites |-> 0], 0),
     cache |-> <<>>]

\* on_search from the page loop on: the next batch goes to the pool, or the
\* other sites are scraped, the cache file is written and the results shown
GuiAdvance(g, pages, q) ==
    IF pages.batch # <<>>
    THEN [g EXCEPT !.phase = "pool", !.candidates = pages.batch,
                   !.pending = 1..Len(pages.batch),
                   !.page_number = pages.page_number, !.start = g.st]
    ELSE Let(GuiOtherSites(1, g.st, q, g.web), LAMBDA t :
             [g EXCEPT !.phase = "done", !.pending = {}, !.st = t,
                       !.cache = AsList([i \in 1..Len(t.cached_results) |->
                                            GuiRowOf(t.cached_results[i])])])

\* ------------------------------------------------------------------ state
VARIABLES
    files,       \* the cache directory: partition slug -> rows of the CSV file
    today,       \* datetime.date.today(), as an ordinal
    keyword,     \* the keyword of the search
    ods_number,  \* the SDG number of the search ("" when none is selected)
    last,        \* the most recent engine call and what it did
    prev,        \* the engine call before it
    national_files,  \* the national cache files: <<ministry, type>> -> rows
    nops,        \* engine calls made so far
    jumps,       \* days elapsed since the first day
    gui,         \* the search of all_scraper_gui.py: its position and lists
    sig,         \* two theme strings and the theme slugs computed for them
    run          \* the load_all_calls in progress: its position and locals

vars == <<files, national_files, today, keyword, ods_number, last, prev, nops, jumps, gui,
          sig, run>>

\* the portals a single-portal search is run for
SinglePortals == {EuropeanCommission, Wellcome, AcademyOfFinland}

\* the max_results a direct call of cached_scrape / scrape_eu_calls passes
MaxResultsArgs == {3}

\* the ministries and the portals' states a national search is run for
SingleMinistries == {"MinEnergia", "MinAmbiente"}
NationalWebs == {"raw", "short"}

Query == [theme_filter |-> EmptyStr, ods_number |-> ods_number,
          keyword |-> keyword, today |-> today]

NoFiles == [p \in Partitions |-> <<>>]

NoNationalFiles == [f \in NationalFiles |-> <<>>]

\* no theme slug computed yet
NoSig == [a |-> EmptyStr, b |-> EmptyStr, slug_a |-> NoSelect, slug_b |-> NoSelect]

\* no load_all_calls in progress
NoRun == [pc |-> "idle", i |-> 0, web |-> "none", today |-> 0, before |-> NoFiles,
          filtered_portal |-> <<>>, aggregated |-> <<>>, scraped |-> <<>>, log |-> <<>>]

NoCall == [op |-> "none", portal |-> EmptyStr, max_results |-> 0, web |-> "none",
           call_type |-> "none", today |-> 0, keyword |-> EmptyStr, before |-> NoFiles,
           national_before |-> NoNationalFiles,
           ret |-> <<>>, raised |-> FALSE, scraped |-> <<>>, pages |-> <<>>]

Done(op, portal_name, max_results, web, out) ==
    \E o \in {out} :
        /\ files' = o.files
        /\ last' = [op |-> op, portal |-> portal_name, max_results |-> max_results,
                    web |-> web, call_type |-> "none", today |-> today, keyword |-> keyword,
                    before |-> files,
                    national_before |-> national_files,
                    ret |-> o.ret, raised |-> o.raised, scraped |-> o.scraped,
                    pages |-> IF "pages" \in DOMAIN o THEN o.pages ELSE <<>>]
        /\ prev' = last
        /\ nops' = nops + 1
        /\ UNCHANGED <<national_files, today, keyword, ods_number, jumps, gui, sig, run>>

\* a national call has returned
DoneNational(op, ministry, call_type, web, out) ==
    \E o \in {out} :
        /\ national_files' = o.files
        /\ last' = [op |-> op, portal |-> ministry, max_results |-> LIMIT,
                    web |-> web, call_type |-> call_type, today |-> today,
                    keyword |-> keyword, before |-> files,
                    national_before |-> national_files,
                    ret |-> o.ret, raised |-> o.raised, scraped |-> o.scraped, pages |-> <<>>]
        /\ prev' = last
        /\ nops' = nops + 1
        /\ UNCHANGED <<files, today, keyword, ods_number, jumps, gui, sig, run>>

Init ==
    /\ files = NoFiles
    /\ national_files = NoNationalFiles
    /\ today = Day0
    /\ keyword \in {EmptyStr, KeywordAI}
    /\ ods_number \in {EmptyStr, Ods3}
    /\ last = NoCall
    /\ prev = NoCall
    /\ nops = 0
    /\ jumps = 0
    /\ gui = GuiIdle
    /\ sig = NoSig
    /\ run = NoRun

\* load_portal_calls for one portal
LoadPortalCalls(portal_name, web) ==
    /\ nops < MaxOps
    /\ Done("load_portal_calls", portal_name, LIMIT, web,
            load_portal_calls(files, portal_name, Query, web, TRUE))

\* load_all_calls
LoadAllCalls(web) ==
    /\ nops < MaxOps
    /\ Done("load_all_calls", EmptyStr, LIMIT, web, load_all_calls(files, Query, web))

CachedScrape(site_name, max_results, web) ==
    /\ nops < MaxOps
    /\ Done("cached_scrape", site_name, max_results, web,
            cached_scrape(files, site_name, Query, max_results, web))

\* scrape_eu_calls called on its own
ScrapeEuCalls(max_results, web) ==
    /\ nops < MaxOps
    /\ \E r \in {scrape_eu_calls(files, Query, max_results, web)} :
           Done("scrape_eu_calls", EuropeanCommission, max_results, web,
                [files |-> r.files, ret |-> r.calls, raised |-> r.raised,
                 scraped |-> <<>>, pages |-> r.pages])

\* a national search for one ministry
LoadNationalCalls(ministry, call_type, web) ==
    /\ nops < MaxOps
    /\ DoneNational("load_national_calls", ministry, call_type, web,
                    load_national_calls(national_files, ministry, call_type, today, web, TRUE))

\* a national search with "All" ministries selected
LoadAllNationalCalls(call_type, web) ==
    /\ nops < MaxOps
    /\ DoneNational("load_all_national_calls", "All", call_type, web,
                    load_all_national_calls(national_files, call_type, today, web))

\* midnight passes
AdvanceDay ==
    /\ jumps < MaxDayJumps
    /\ today' = today + 1
    /\ jumps' = jumps + 1
    /\ UNCHANGED <<files, national_files, keyword, ods_number, last, prev, nops, gui, sig, run>>

Next ==
    \/ \E p \in SinglePortals, w \in Webs : LoadPortalCalls(p, w)
    \/ \E w \in Webs : LoadAllCalls(w)
    \/ \E m \in MaxResultsArgs, w \in Webs : CachedScrape(Wellcome, m, w)
    \/ \E m \in MaxResultsArgs, w \in Webs \cup {"empty", "stale"} : ScrapeEuCalls(m, w)
    \/ \E m \in SingleMinistries, t \in {"All", "Regalias"}, w \in NationalWebs :
          LoadNationalCalls(m, t, w)
    \/ \E w \in NationalWebs : LoadAllNationalCalls("All", w)
    \/ AdvanceDay

Spec == Init /\ [][Next]_vars

\* the keyword entry is edited between two searches
SetKeyword(kw) ==
    /\ kw # keyword
    /\ keyword' = kw
    /\ UNCHANGED <<files, national_files, today, ods_number, last, prev, nops, jumps, gui,
                   sig, run>>

NextKeyword ==
    \/ Next
    \/ \E kw \in {EmptyStr, KeywordAI} : SetKeyword(kw)

\* searches of one signature (theme, SDG) with the keyword changing
SpecKeyword == Init /\ [][NextKeyword]_vars

\* ------------------------------------------- the search of all_scraper_gui
\* the numbers of calls the search is asked for
ResultsLimits == {1, 3}

\* the filters of on_search: keywords is lower-cased when it is read
GuiQuery(day) == [theme_filter |-> EmptyStr, ods_number |-> ods_number,
                  keyword |-> Lower(keyword), today |-> day]

\* "Search" is clicked: the cache file is read, the listing pages are
\* collected and the first batch is handed to the pool
OnSearch(results_limit, web) ==
    /\ nops < MaxOps
    /\ gui.phase # "pool"
    /\ \E q \in {GuiQuery(today)} :
       \E st0 \in {GuiLoadCache(gui.cache, 1, GuiIdle.st, q)} :
       \E final \in {GuiTakeCached(st0.cached_results, 1, <<>>, results_limit)} :
       \E st1 \in {[st0 EXCEPT !.final_data = final,
                               !.needed = results_limit - Len(final)]} :
          gui' = GuiAdvance([GuiIdle EXCEPT !.results_limit = results_limit, !.web = web,
                                            !.today = today, !.cache = gui.cache,
                                            !.st = st1, !.start = st1],
                            GuiPages(1, <<>>, st1, MaxBatch(results_limit), q, web), q)
    /\ nops' = nops + 1
    /\ UNCHANGED <<files, national_files, today, keyword, ods_number, last, prev, jumps, sig, run>>

\* as_completed yields the future of the i-th candidate: one of the
\* MAX_WORKERS oldest futures still running has finished
Complete(i) ==
    /\ gui.phase = "pool"
    /\ i \in gui.pending
    /\ Cardinality({j \in gui.pending : j < i}) < MAX_WORKERS
    /\ \E q \in {GuiQuery(gui.today)} :
       \E t \in {GuiCollect(gui.st, gui.candidates[i], q)} :
          gui' = IF \/ t.needed <= 0
                    \/ t.source_count[SiteEU] >= PER_SITE
                    \/ gui.pending = {i}
                 THEN GuiAdvance([gui EXCEPT !.st = t, !.pending = @ \ {i}],
                                 GuiPages(gui.page_number + 1, <<>>, t,
                                          MaxBatch(gui.results_limit), q, gui.web), q)
                 ELSE [gui EXCEPT !.st = t, !.pending = @ \ {i}]
    /\ UNCHANGED <<files, national_files, today, keyword, ods_number, last, prev, nops, jumps, sig, run>>

NextPool ==
    \/ \E r \in ResultsLimits, w \in GuiWebs : OnSearch(r, w)
    \/ \E i \in 1..ListingLen : Complete(i)
    \/ AdvanceDay

SpecPool == Init /\ [][NextPool]_vars

\* ------------------------------------------------- the "Search Online" button
\* the sites of the site menu a search is run for ("" stands for "All")
SelectedSites == SinglePortals \cup {EmptyStr}

\* search_online_international up to `aggregated`: with "All" selected
\* load_all_calls; with one portal, the valid records of its file when there
\* is at least one, load_portal_calls when there is none
search_online_international(fs, selected_site, q, web) ==
    IF selected_site = EmptyStr THEN load_all_calls(fs, q, web)
    ELSE Let(FilterCached(load_cache(fs, SlugOf[selected_site]), LIMIT, q),
             LAMBDA valid_calls :
             IF valid_calls # <<>>
             THEN Outcome(fs, Take(SortCalls(valid_calls), LIMIT), FALSE, <<>>)
             ELSE load_portal_calls(fs, selected_site, q, web, TRUE))

\* "Search Online" is clicked in international mode; the list is sorted
\* once more, written to the results CSV and shown (last.ret is that list)
SearchOnlineInternational(selected_site, web) ==
    /\ nops < MaxOps
    /\ \E o \in {search_online_international(files, selected_site, Query, web)} :
          Done("search_online_international", selected_site, LIMIT, web,
               Outcome(o.files, SortCalls(o.ret), o.raised, o.scraped))

NextOnline ==
    \/ \E p \in SelectedSites, w \in Webs : SearchOnlineInternational(p, w)
    \/ AdvanceDay

SpecOnline == Init /\ [][NextOnline]_vars

\* ------------------------------------------------ searches without scraping
\* search_csv_international up to `aggregated_sorted`: the rows of the "all"
\* file ("All" selected) or of the portal's file that pass the three tests,
\* sorted; neither loop has a cap
search_csv_international(fs, selected_site, q) ==
    Let(load_cache(fs, IF selected_site = EmptyStr THEN AllSlug ELSE SlugOf[selected_site]),
        LAMBDA loaded_calls :
        Outcome(fs, SortCalls(SelectSeq(loaded_calls, LAMBDA c : ~Rejected(c, q))),
                FALSE, <<>>))

\* the rows of the ministries' files from the i-th ministry on that pass the
\* expiry and call-type tests
RECURSIVE CsvNationalFrom(_, _, _, _)
CsvNationalFrom(i, nfiles, call_type, day) ==
    IF i > Len(MinistryOrder) THEN <<>>
    ELSE SelectSeq(load_national_cache(nfiles, <<MINISTRY_SLUGS[MinistryOrder[i]],
                                                  CALLTYPE_SLUGS[call_type]>>),
                   LAMBDA c : ~NationalRejected(c, call_type, day))
         \o CsvNationalFrom(i + 1, nfiles, call_type, day)

\* search_csv_national up to `aggregated_sorted`
search_csv_national(nfiles, ministry, call_type, day) ==
    Outcome(nfiles,
            SortCalls(IF ministry = "All" THEN CsvNationalFrom(1, nfiles, call_type, day)
                      ELSE SelectSeq(load_national_cache(nfiles,
                                        <<MINISTRY_SLUGS[ministry], CALLTYPE_SLUGS[call_type]>>),
                                     LAMBDA c : ~NationalRejected(c, call_type, day))),
            FALSE, <<>>)

\* "Search CSV" is clicked in international mode
SearchCsvInternational(selected_site) ==
    /\ nops < MaxOps
    /\ Done("search_csv_international", selected_site, LIMIT, "none",
            search_csv_international(files, selected_site, Query))

\* "Search CSV" is clicked in national mode
SearchCsvNational(ministry, call_type) ==
    /\ nops < MaxOps
    /\ DoneNational("search_csv_national", ministry, call_type, "none",
                    search_csv_national(national_files, ministry, call_type, today))

\* load_portal_calls(..., scrape_if_needed=False)
LoadPortalCallsNoScrape(portal_name) ==
    /\ nops < MaxOps
    /\ Done("load_portal_calls no scrape", portal_name, LIMIT, "none",
            load_portal_calls(files, portal_name, Query, "none", FALSE))

\* load_national_calls(..., scrape_if_needed=False)
LoadNationalCallsNoScrape(ministry, call_type) ==
    /\ nops < MaxOps
    /\ DoneNational("load_national_calls no scrape", ministry, call_type, "none",
                    load_national_calls(national_files, ministry, call_type, today,
                                        "none", FALSE))

NextCsv ==
    \/ Next
    \/ \E p \in SelectedSites : SearchCsvInternational(p)
    \/ \E m \in SingleMinistries \cup {"All"}, t \in {"All", "Regalias"} :
          SearchCsvNational(m, t)
    \/ \E p \in SinglePortals : LoadPortalCallsNoScrape(p)
    \/ \E m \in SingleMinistries, t \in {"All", "Regalias"} : LoadNationalCallsNoScrape(m, t)

\* searches that scrape followed by searches that do not
SpecCsv == Init /\ [][NextCsv]_vars

\* ------------------------------------------- load_all_calls, step by step
\* The loop of load_all_calls with its statements as separate steps: the
\* file of the portal is read and filtered, the scraper is called when the
\* file is short, the portal's file is written, and after the loop the
\* "all" file.  run.log lists the file reads, scraper calls and file writes
\* of the loop in the order they are made.
Event(ev, i) == [ev |-> ev, i |-> i]

\* the query of the run: the filters, and the day the run was started on
RunQuery == [Query EXCEPT !.today = run.today]

\* an "all" file rewritten at the end of every iteration
LoopEnds_every_source(i) == TRUE

\* `for portal_name, scraper_func in portal_map.items()` is exhausted
LoopEnds(i) == i > Len(PortalOrder)

\* the call returns (ret) or lets an exception through
RunEnds(ret, raised) ==
    /\ last' = [op |-> "load_all_calls", portal |-> EmptyStr, max_results |-> LIMIT,
                web |-> run.web, call_type |-> "none", today |-> run.today,
                keyword |-> keyword,
                before |-> run.before, national_before |-> national_files,
                ret |-> ret, raised |-> raised, scraped |-> run'.scraped,
                pages |-> <<>>]
    /\ prev' = last

\* load_all_calls is called
BeginLoadAll(web) ==
    /\ nops < MaxOps
    /\ run.pc = "idle"
    /\ run' = [NoRun EXCEPT !.pc = "read", !.i = 1, !.web = web, !.today = today,
                            !.before = files]
    /\ nops' = nops + 1
    /\ UNCHANGED <<files, national_files, today, keyword, ods_number, last, prev, jumps,
                   gui, sig>>

\* portal_calls = load_cache(slugify(portal_name), ...) and the loop over it
ReadPortal ==
    /\ run.pc = "read"
    /\ \E cached_valid \in {FilterCached(load_cache(files, SlugOf[PortalOrder[run.i]]),
                                         LIMIT, RunQuery)} :
          run' = [run EXCEPT !.filtered_portal = cached_valid,
                             !.log = Append(@, Event("read", run.i)),
                             !.pc = IF CacheHit(cached_valid, LIMIT) THEN "write"
                                    ELSE "scrape"]
    /\ UNCHANGED <<files, national_files, today, keyword, ods_number, last, prev, nops,
                   jumps, gui, sig>>

\* new_calls = scraper_func(..., needed, today) and the loop over new_calls;
\* the portal of this iteration answers as the others do, or is out of reach
ScrapePortal(out_of_reach) ==
    /\ run.pc = "scrape"
    /\ \E t \in {TopUp(files, PortalOrder[run.i], run.filtered_portal,
                       LIMIT - Len(run.filtered_portal), RunQuery,
                       IF out_of_reach THEN "down" ELSE run.web)} :
          /\ files' = t.files
          /\ run' = [run EXCEPT !.filtered_portal = t.calls,
                                !.scraped = @ \o t.scraped,
                                !.log = Append(@, Event("scrape", run.i)),
                                !.pc = IF t.raised THEN "idle" ELSE "write"]
          /\ IF t.raised THEN RunEnds(<<>>, TRUE) ELSE UNCHANGED <<last, prev>>
    /\ UNCHANGED <<national_files, today, keyword, ods_number, nops, jumps, gui, sig>>

\* sorted(...)[:10], save_cache(slugify(portal_name), ...), aggregated.extend
WritePortal ==
    /\ run.pc = "write"
    /\ \E sorted_portal \in {Take(SortCalls(run.filtered_portal), LIMIT)} :
          /\ files' = save_cache(files, SlugOf[PortalOrder[run.i]], sorted_portal)
          /\ run' = [run EXCEPT !.aggregated = @ \o sorted_portal,
                                !.filtered_portal = <<>>,
                                !.log = Append(@, Event("write", run.i)),
                                !.i = @ + 1,
                                !.pc = IF LoopEnds(run.i + 1) THEN "all" ELSE "read"]
    /\ UNCHANGED <<national_files, today, keyword, ods_number, last, prev, nops, jumps,
                   gui, sig>>

\* save_cache("all", ...), sorted(aggregated) and the return
WriteAll ==
    /\ run.pc = "all"
    /\ files' = save_cache(files, AllSlug, run.aggregated)
    /\ run' = [run EXCEPT !.log = Append(@, Event("write_all", 0)), !.pc = "idle"]
    /\ RunEnds(SortCalls(run.aggregated), FALSE)
    /\ UNCHANGED <<national_files, today, keyword, ods_number, nops, jumps, gui, sig>>

NextSteps ==
    \/ \E w \in Webs : BeginLoadAll(w)
    \/ ReadPortal
    \/ \E out_of_reach \in BOOLEAN : ScrapePortal(out_of_reach)
    \/ WritePortal
    \/ WriteAll
    \/ AdvanceDay

SpecSteps == Init /\ [][NextSteps]_vars

\* ------------------------------------------------------ cache signatures
\* theme_slug = slugify(theme_filter) if theme_filter else "no_select"
ThemeSlug(theme_filter) ==
    IF theme_filter = EmptyStr THEN NoSelect ELSE slugify(theme_filter)

\* spellings of theme names as they may reach the engine
ThemePool == {
    <<"B","i","o"," ","A","I">>, <<"b","i","o"," ","a","i">>, <<"B","I","O"," ","A","I">>,
    <<" ","B","i","o"," ","A","I">>, <<"B","i","o"," ","A","I"," ">>,
    <<"B","i","o"," "," ","A","I">>, <<"B","i","o"," ","(","A","I",")">>,
    <<"(","B","i","o",")"," ","A","I">>, <<"B","i","o","A","I">>, <<"B","i","o">>,
    <<"A","I">>, EmptyStr }

\* the engine computes the theme slugs of two searches
ThemeSlugs(a, b) ==
    /\ sig' = [a |-> a, b |-> b, slug_a |-> ThemeSlug(a), slug_b |-> ThemeSlug(b)]
    /\ UNCHANGED <<files, national_files, today, keyword, ods_number, last, prev,
                   nops, jumps, gui, run>>

NextSlug == \E a \in ThemePool, b \in ThemePool : ThemeSlugs(a, b)

SpecSlug == Init /\ [][NextSlug]_vars

\* ------------------------------------------------- cache files found on disk
\* The cache directory is read as it is found: the files may come from an
\* earlier run, another version of the program or an edit by hand.
DiskRows(portal_name, positions) ==
    AsList([k \in 1..Len(positions) |-> RowOf(ListedCall(portal_name, positions[k]))])

\* ten rows, all valid on the first day, not in sorted order
TenValid == <<8, 7, 6, 5, 4, 3, 1, 12, 13, 14>>
\* twelve rows, the second one expired
TwelveRows == <<8, 2, 7, 6, 5, 4, 3, 1, 12, 13, 14, 16>>
\* three rows, the first two with the same link
SameLinkRows == <<1, 9, 3>>

WarmPartition == [p \in PortalNames |->
    DiskRows(p, IF p = Wellcome THEN TwelveRows ELSE TenValid)]

\* every partition filled, the "all" file holding the six portals' rows
DiskWarm == [s \in Partitions |->
    IF s = AllSlug
    THEN WarmPartition[PortalOrder[1]] \o WarmPartition[PortalOrder[2]]
         \o WarmPartition[PortalOrder[3]] \o WarmPartition[PortalOrder[4]]
         \o WarmPartition[PortalOrder[5]] \o WarmPartition[PortalOrder[6]]
    ELSE WarmPartition[CHOOSE p \in PortalNames : SlugOf[p] = s]]

\* three partitions with a repeated link, and an "all" file that holds
\* rows the portal files lack
DiskSameLink == [s \in Partitions |->
    IF s = AllSlug
    THEN DiskRows(Wellcome, <<12, 13, 14, 16, 2>>) \o DiskRows(EuropeanCommission, <<12, 13>>)
    ELSE IF s \in {SlugOf[p] : p \in SinglePortals}
    THEN DiskRows(CHOOSE p \in PortalNames : SlugOf[p] = s, SameLinkRows)
    ELSE <<>>]

Disks == {DiskWarm, DiskSameLink}

InitDisk ==
    /\ files \in Disks
    /\ national_files = NoNationalFiles
    /\ today = Day0
    /\ keyword \in {EmptyStr, KeywordAI}
    /\ ods_number = EmptyStr
    /\ last = NoCall
    /\ prev = NoCall
    /\ nops = 0
    /\ jumps = 0
    /\ gui = GuiIdle
    /\ sig = NoSig
    /\ run = NoRun

SpecDisk == InitDisk /\ [][Next]_vars

SpecStepsDisk == InitDisk /\ [][NextSteps]_vars

\* files found on disk, searched with the keyword changing
SpecKeywordDisk == InitDisk /\ [][NextKeyword]_vars

\* a row cut short after the description column
ShortRow(call) ==
    [title |-> call.title, link |-> call.link, opening_date |-> call.opening_date,
     deadline_date |-> call.deadline_date, description |-> call.description]

\* a Wellcome file whose second row is cut short, among readable files
DiskShortRow == [s \in Partitions |->
    IF s = SlugOf[Wellcome]
    THEN DiskRows(Wellcome, <<8, 7>>) \o <<ShortRow(ListedCall(Wellcome, 6))>>
         \o DiskRows(Wellcome, <<4, 3>>)
    ELSE IF s = SlugOf[EuropeanCommission] THEN DiskRows(EuropeanCommission, TenValid)
    ELSE <<>>]

InitShortRow ==
    /\ files = DiskShortRow
    /\ national_files = NoNationalFiles
    /\ today = Day0
    /\ keyword \in {EmptyStr, KeywordAI}
    /\ ods_number \in {EmptyStr, Ods3}
    /\ last = NoCall
    /\ prev = NoCall
    /\ nops = 0
    /\ jumps = 0
    /\ gui = GuiIdle
    /\ sig = NoSig
    /\ run = NoRun

SpecShortRow == InitShortRow /\ [][Next]_vars

\* a national file found on disk: the rows of the ministry mixed with rows
\* of another call type, an expired one among them
NationalDiskRows(ministry, other) ==
    AsList([k \in 1..Len(TwelveRows) |->
        NationalRowOf(MinistryCall(IF k % 3 = 0 THEN other ELSE ministry, TwelveRows[k]))])

DiskNational == [f \in NationalFiles |->
    IF f[1] = MINISTRY_SLUGS["MinEnergia"] THEN NationalDiskRows("MinEnergia", "MinCultura")
    ELSE IF f = <<MINISTRY_SLUGS["MinAmbiente"], CALLTYPE_SLUGS["Regalias"]>>
    THEN Take(NationalDiskRows("MinCiencias", "MinTIC"), 4)
    ELSE <<>>]

InitNationalDisk ==
    /\ files = NoFiles
    /\ national_files = DiskNational
    /\ today = Day0
    /\ keyword \in {EmptyStr, KeywordAI}
    /\ ods_number \in {EmptyStr, Ods3}
    /\ last = NoCall
    /\ prev = NoCall
    /\ nops = 0
    /\ jumps = 0
    /\ gui = GuiIdle
    /\ sig = NoSig
    /\ run = NoRun

SpecNationalDisk == InitNationalDisk /\ [][Next]_vars

\* ----------------------------------------------------------------- claims
\* C1. Sync invariant: after a completed top-up of a source (a call of
\* load_portal_calls, load_all_calls or cached_scrape that invoked the
\* source's scraper and returned), the rows of the "all" file whose site
\* slug is the slug of the source are exactly the rows of the source's file.
C1_SyncInvariant ==
    (last.op \in {"load_portal_calls", "load_all_calls", "cached_scrape"} /\ ~last.raised)
    => \A k \in 1..Len(last.scraped) :
          {files[AllSlug][i] : i \in {n \in 1..Len(files[AllSlug]) :
               SlugOf[files[AllSlug][n].site] = SlugOf[last.scraped[k].portal]}}
          = {files[SlugOf[last.scraped[k].portal]][i] :
               i \in 1..Len(files[SlugOf[last.scraped[k].portal]])}

\* C2. Scraper failure isolation: an exception raised by the scraper
\* function during load_portal_calls or load_all_calls does not reach the
\* caller.
C2_FailureIsolation ==
    last.op \in {"load_portal_calls", "load_all_calls"} => ~last.raised

\* C3. Dedup invariant (single source): no two records of a list returned
\* by load_portal_calls, cached_scrape or scrape_eu_calls share a link,
\* whatever the partition, the "all" file and the scraper hold.
C3_NoDuplicateLinks ==
    (last.op \in {"load_portal_calls", "cached_scrape", "scrape_eu_calls"} /\ ~last.raised)
    => \A i, j \in 1..Len(last.ret) : i # j => last.ret[i].link # last.ret[j].link

\* C4. Cross-source dedup in "all" mode: after load_all_calls a link that
\* two sources contributed appears once in the returned list and once in
\* the "all" file.
C4_CrossSourceDedup ==
    (last.op = "load_all_calls" /\ ~last.raised)
    => /\ \A i, j \in 1..Len(last.ret) :
             i # j => last.ret[i].link # last.ret[j].link \/ last.ret[i].site = last.ret[j].site
       /\ \A i, j \in 1..Len(files[AllSlug]) :
             i # j => \/ files[AllSlug][i].link # files[AllSlug][j].link
                      \/ files[AllSlug][i].site = files[AllSlug][j].site

\* the query of the last call, with the day it was made on
QueryOn(day) == [Query EXCEPT !.today = day]

\* C5. Cap invariant: the list a single-source call returns is never longer
\* than the limit: 10 for load_portal_calls, max_results for cached_scrape
\* and scrape_eu_calls.
C5_CapInvariant ==
    /\ last.op = "load_portal_calls" => Len(last.ret) <= LIMIT
    /\ last.op \in {"cached_scrape", "scrape_eu_calls"} => Len(last.ret) <= last.max_results

\* a top-up whose scraper handed back more than it was asked for, and whose
\* result is exactly at the cap
C5_Witness ==
    /\ last.op = "load_portal_calls"
    /\ Len(last.scraped) = 1
    /\ last.scraped[1].returned > last.scraped[1].max_results
    /\ Len(last.ret) = LIMIT

\* C6. Expiry invariant: every record returned by load_portal_calls,
\* load_all_calls, cached_scrape or load_national_calls whose deadline parses
\* to a date closes at least seven days after the day of the call.
C6_ExpiryInvariant ==
    last.op \in {"load_portal_calls", "load_all_calls", "cached_scrape", "load_national_calls"}
    => \A i \in 1..Len(last.ret) :
          \/ ParsedDeadline[last.ret[i].deadline_date] = NoDate
          \/ ParsedDeadline[last.ret[i].deadline_date] - last.today >= 7

\* a scraper handed the whole listing, expired calls included, and a call
\* closing in exactly seven days was returned
C6_Witness ==
    /\ last.op = "load_portal_calls"
    /\ Len(last.scraped) = 1
    /\ last.scraped[1].returned = ListingLen
    /\ \E i \in 1..Len(last.ret) :
          ParsedDeadline[last.ret[i].deadline_date] - last.today = 7

\* C7. Sort invariant: every list the engine returns is non-decreasing in
\* the key (parsed deadline, or the maximum date when there is none; then
\* title).
C7_SortInvariant ==
    last.op # "none"
    => \A i \in 1..(Len(last.ret) - 1) : ~KeyLess(last.ret[i + 1], last.ret[i])

\* an "all" search returned records of several portals, the first with a
\* deadline and the last without one
C7_Witness ==
    /\ last.op = "load_all_calls"
    /\ Len(last.ret) > LIMIT
    /\ DeadlineKey(last.ret[1]) < DateMax
    /\ DeadlineKey(last.ret[Len(last.ret)]) = DateMax

\* the records of the portal's file that are valid on the day: not expired,
\* matching the SDG number and the keyword
ValidCached(fs, portal_name, day) ==
    SelectSeq(load_cache(fs, SlugOf[portal_name]), LAMBDA c :
        /\ \/ ParsedDeadline[c.deadline_date] = NoDate
           \/ ParsedDeadline[c.deadline_date] - day >= 7
        /\ MatchesOds(c, ods_number)
        /\ MatchesKeyword(c, keyword))

\* every portal the call reads holds at least LIMIT valid records
EnoughCached(call) ==
    \A p \in (IF call.op = "load_all_calls" THEN PortalNames ELSE {call.portal}) :
        Len(ValidCached(call.before, p, call.today)) >= 10

\* C8. Idempotence of the cache-hit path: when the partition holds at least
\* LIMIT valid records, the second of two consecutive identical engine calls
\* on the same day invokes no scraper and returns the list the first returned.
C8_Idempotence ==
    ( /\ prev.op \in {"load_portal_calls", "load_all_calls"}
      /\ last.op = prev.op /\ last.portal = prev.portal /\ last.today = prev.today
      /\ EnoughCached(prev) )
    => /\ ~prev.raised /\ ~last.raised
       /\ last.scraped = <<>>
       /\ last.ret = prev.ret

\* two "all" searches in a row on six full partitions
C8_Witness ==
    /\ prev.op = "load_all_calls" /\ last.op = "load_all_calls"
    /\ last.today = prev.today
    /\ EnoughCached(prev)
    /\ last.ret = prev.ret
    /\ Len(last.ret) = 6 * LIMIT

\* the portal's file holds exactly cap rows, all of them valid on the day
ExactlyValid(fs, portal_name, cap, day) ==
    /\ Len(fs[SlugOf[portal_name]]) = cap
    /\ Len(ValidCached(fs, portal_name, day)) = cap

\* C9. Cache-hit fast path: when the partition of S holds exactly LIMIT
\* records, all valid, the engine returns exactly those records, writes
\* nothing and never calls the scraper of S.
C9_CacheHitFastPath ==
    /\ ( /\ last.op \in {"load_portal_calls", "cached_scrape", "scrape_eu_calls"}
         /\ ExactlyValid(last.before, last.portal, last.max_results, last.today) )
       => /\ ~last.raised
          /\ last.scraped = <<>>
          /\ files = last.before
          /\ Len(last.ret) = last.max_results
          /\ {last.ret[i] : i \in 1..Len(last.ret)}
             = {CallOf(last.before[SlugOf[last.portal]][i]) : i \in 1..last.max_results}
    /\ last.op = "load_all_calls"
       => \A p \in PortalNames :
             ExactlyValid(last.before, p, LIMIT, last.today)
             => /\ \A k \in 1..Len(last.scraped) : last.scraped[k].portal # p
                /\ last.raised
                   \/ \A i \in 1..LIMIT :
                         \E j \in 1..Len(last.ret) :
                            last.ret[j] = CallOf(last.before[SlugOf[p]][i])

\* a single-portal search on a file of exactly ten valid rows, one of them
\* closing in exactly seven days, while the portal is down
C9_Witness ==
    /\ last.op = "load_portal_calls"
    /\ last.web = "down"
    /\ ExactlyValid(last.before, last.portal, LIMIT, last.today)
    /\ Len(last.ret) = LIMIT
    /\ \E i \in 1..LIMIT : ParsedDeadline[last.ret[i].deadline_date] - last.today = 7

\* the links of the valid calls the live site offers
Offered(portal_name, web, day) ==
    {Listing[portal_name][i].link :
        i \in {n \in 1..(IF web = "short" THEN ShortLen ELSE ListingLen) :
            /\ web # "down"
            /\ Listing[portal_name][n].link # NoLink
            /\ ~Rejected(Listing[portal_name][n], QueryOn(day))}}

\* C10. Top-up fills the deficit: when the source's cache holds k < 10 valid
\* records and the live site offers at least 10 - k further valid calls with
\* new links, load_portal_calls returns exactly ten records and saves ten
\* rows for the source.
C10_TopUpFillsDeficit ==
    ( /\ last.op = "load_portal_calls"
      /\ Len(ValidCached(last.before, last.portal, last.today)) < 10
      /\ Cardinality(Offered(last.portal, last.web, last.today)
                     \ Links(ValidCached(last.before, last.portal, last.today)))
         >= 10 - Len(ValidCached(last.before, last.portal, last.today)) )
    => /\ ~last.raised
       /\ Len(last.ret) = 10
       /\ Len(files[SlugOf[last.portal]]) = 10

\* the number of positions of the list that hold the record
Count(calls, c) == Cardinality({i \in 1..Len(calls) : calls[i] = c})

\* C11. "All" mode: a completed load_all_calls invokes every portal's
\* scraper at most once, leaves at most LIMIT rows in every portal's file,
\* leaves in the "all" file the six portal files one after the other in
\* portal order, and returns the records of the "all" file, all of them
\* (at most 6 * LIMIT), in sorted order.
C11_AllMode ==
    (last.op = "load_all_calls" /\ ~last.raised)
    => \E merged \in {load_cache(files, AllSlug)} :
          /\ \A i, j \in 1..Len(last.scraped) :
                i # j => last.scraped[i].portal # last.scraped[j].portal
          /\ \A p \in PortalNames : Len(files[SlugOf[p]]) <= LIMIT
          /\ files[AllSlug] =
                files[SlugOf[PortalOrder[1]]] \o files[SlugOf[PortalOrder[2]]]
                \o files[SlugOf[PortalOrder[3]]] \o files[SlugOf[PortalOrder[4]]]
                \o files[SlugOf[PortalOrder[5]]] \o files[SlugOf[PortalOrder[6]]]
          /\ Len(last.ret) = Len(merged)
          /\ Len(last.ret) <= 6 * LIMIT
          /\ \A i \in 1..Len(merged) : Count(last.ret, merged[i]) = Count(merged, merged[i])
          /\ \A i \in 1..(Len(last.ret) - 1) : ~KeyLess(last.ret[i + 1], last.ret[i])

\* an "all" search that topped up every portal and returned more than
\* fifty records
C11_Witness ==
    /\ last.op = "load_all_calls" /\ ~last.raised
    /\ Len(last.scraped) = 6
    /\ \A k \in 1..6 : last.scraped[k].returned > 0
    /\ Len(last.ret) > 5 * LIMIT

\* the search as it ends when the futures of the batch are handled in the
\* order they were submitted
InSubmissionOrder ==
    GuiOtherSites(1, GuiPoolInOrder(gui.candidates, 1, gui.start, GuiQuery(gui.today)),
                  GuiQuery(gui.today), gui.web).final_data

\* C12. Determinism under the pool: when a search whose candidates were
\* summarised and classified on the worker pool has ended, the records it
\* shows, and their order, are the ones it shows when the workers complete
\* in submission order.
C12_PoolDeterminism ==
    (gui.phase = "done" /\ gui.candidates # <<>>)
    => \E expected \in {InSubmissionOrder} :
          /\ Titles(gui.st.final_data) = Titles(expected)
          /\ Links(gui.st.final_data) = Links(expected)
          /\ gui.st.final_data = expected

\* C13. Cache load is never fatal: load_cache gives the empty list for a
\* file that is absent, and for a file with a malformed row it gives the
\* records of all the other rows.
C13_LoadNeverFatal ==
    \A s \in Partitions :
        \E loaded \in {load_cache(files, s)} :
            /\ files[s] = <<>> => loaded = <<>>
            /\ \A i \in 1..Len(files[s]) :
                  RowComplete(files[s][i])
                  => \E j \in 1..Len(loaded) : loaded[j] = CallOf(files[s][i])

\* the last call went past the cache-hit return and saved the portal's file
SavedPortal ==
    /\ last.op \in {"load_portal_calls", "cached_scrape"}
    /\ ~last.raised
    /\ last.max_results > 0
    /\ ~CacheHit(FilterCached(load_cache(last.before, SlugOf[last.portal]),
                              last.max_results, QueryOn(last.today)),
                 last.max_results)

\* C14. Save overwrites wholesale: once load_portal_calls has saved its
\* sorted list, load_cache of the portal's file gives exactly the list that
\* was saved and returned, and once cached_scrape has saved its combined
\* list, load_cache gives exactly the records it returns (which it sorts
\* after saving); no row the file held before is left.
C14_SaveOverwrites ==
    SavedPortal
    => \E loaded \in {load_cache(files, SlugOf[last.portal])} :
          /\ Len(files[SlugOf[last.portal]]) = Len(last.ret)
          /\ last.op = "load_portal_calls" => loaded = last.ret
          /\ last.op = "cached_scrape" => SortCalls(loaded) = last.ret

\* a save over a file that held a row which is not in the saved list
C14_Witness ==
    /\ SavedPortal
    /\ last.op = "load_portal_calls"
    /\ last.ret # <<>>
    /\ \E i \in 1..Len(last.before[SlugOf[last.portal]]) :
          \A j \in 1..Len(last.ret) :
             RowOf(last.ret[j]) # last.before[SlugOf[last.portal]][i]
    /\ \E j \in 1..Len(last.ret) : Len(last.ret[j].ods_list) > 1

\* what classify_ods may put in an ods_list: "1" .. "17" and "unknown"
OdsValues ==
    {<<Digits[n + 1]>> : n \in 1..9} \cup {<<"1", Digits[n + 1]>> : n \in 0..7} \cup {Unknown}

OdsListValid(calls) ==
    \A i \in 1..Len(calls) :
        /\ calls[i].ods_list # <<>>
        /\ \A k \in 1..Len(calls[i].ods_list) : calls[i].ods_list[k] \in OdsValues

\* the invariant on the international side: scraped, loaded and returned
OdsListValidInternational ==
    /\ \A p \in PortalNames : OdsListValid(Listing[p])
    /\ \A s \in Partitions : OdsListValid(load_cache(files, s))
    /\ last.op \in {"load_portal_calls", "load_all_calls", "cached_scrape", "scrape_eu_calls"}
       => OdsListValid(last.ret)

\* C15. ods_list invariant: every record a scraper produces, every record
\* loaded from an international or a national cache file and every record
\* the engine returns has a non-empty ods_list whose elements are SDG
\* numbers "1" .. "17" or "unknown".
C15_OdsListInvariant ==
    /\ OdsListValidInternational
    /\ \A m \in Ministries : OdsListValid(MinistryListing[m])
    /\ \A f \in NationalFiles : OdsListValid(load_national_cache(national_files, f))
    /\ OdsListValid(last.ret)

IsPunctuation(c) == c \in {"(", ")"}

\* a run of spaces becomes one space
RECURSIVE Collapse(_)
Collapse(s) ==
    IF Len(s) < 2 THEN s
    ELSE IF s[1] = " " /\ s[2] = " " THEN Collapse(Tail(s))
    ELSE <<s[1]>> \o Collapse(Tail(s))

\* the string without its case, its punctuation, its leading and trailing
\* spaces and the length of its runs of spaces
Normalised(s) == Collapse(Strip(SelectSeq(Lower(s), LAMBDA c : ~IsPunctuation(c))))

\* C16. Signature normalisation: two theme strings that differ only in
\* letter case, in leading or trailing spaces, in the length of runs of
\* spaces or in punctuation get the same theme slug.
C16_SlugNormalisation ==
    Normalised(sig.a) = Normalised(sig.b) => sig.slug_a = sig.slug_b

\* C17. National mode output: load_national_calls returns at most ten
\* records, none closing less than seven days after the day of the call,
\* and with a call type other than "All" every record has that type.
C17_NationalOutput ==
    last.op = "load_national_calls"
    => /\ Len(last.ret) <= 10
       /\ \A i \in 1..Len(last.ret) :
             /\ \/ ParsedDeadline[last.ret[i].deadline_date] = NoDate
                \/ ParsedDeadline[last.ret[i].deadline_date] - last.today >= 7
             /\ last.call_type # "All" => last.ret[i].type = last.call_type

\* a "Regalias" search on a file that holds rows of the other type and an
\* expired row, topped up by a scraper that returns its whole listing
C17_Witness ==
    /\ last.op = "load_national_calls"
    /\ last.call_type = "Regalias"
    /\ last.web = "raw"
    /\ Len(last.ret) = 10
    /\ \E f \in NationalFiles :
          /\ f = <<MINISTRY_SLUGS[last.portal], CALLTYPE_SLUGS["Regalias"]>>
          /\ \E i \in 1..Len(DiskNational[f]) : DiskNational[f][i].type = "Proyectos"
          /\ \E i \in 1..Len(DiskNational[f]) :
                /\ ParsedDeadline[DiskNational[f][i].deadline_date] # NoDate
                /\ ParsedDeadline[DiskNational[f][i].deadline_date] - last.today < 7

\* the valid records load_portal_calls finds for the portal of the last
\* call in the portal's file and, through the backfill, in the "all" file
Available ==
    Backfill(load_cache(last.before, AllSlug),
             FilterCached(load_cache(last.before, SlugOf[last.portal]), LIMIT,
                          QueryOn(last.today)),
             LIMIT, SlugOf[last.portal], QueryOn(last.today))

\* C18. Top-up whenever the source is short: in an online search for one
\* portal, when the portal's file and the "all" backfill give fewer than ten
\* valid records, the portal's scraper is invoked, and for the shortfall,
\* also when the file holds between one and nine valid records.
C18_TopUpWhenShort ==
    ( /\ last.op = "search_online_international"
      /\ last.portal \in PortalNames
      /\ Len(Available) < LIMIT )
    => /\ Len(last.scraped) = 1
       /\ last.scraped[1].portal = last.portal
       /\ last.scraped[1].max_results = LIMIT - Len(Available)

\* the valid records the first loop of the call keeps from the portal's file
CachedValid(portal_name, cap) ==
    FilterCached(load_cache(last.before, SlugOf[portal_name]), cap, QueryOn(last.today))

\* the valid records load_national_calls keeps from the ministry's file
NationalCachedValid(ministry) ==
    Take(SelectSeq(load_national_cache(last.national_before,
                       <<MINISTRY_SLUGS[ministry], CALLTYPE_SLUGS[last.call_type]>>),
                   LAMBDA c : ~NationalRejected(c, last.call_type, last.today)), LIMIT)

\* C19. Deficit-only scraping: every scraper invocation of load_portal_calls,
\* load_all_calls, load_national_calls (also under load_all_national_calls)
\* and cached_scrape passes as max_results the cap minus the number of valid
\* records already accumulated from the cache and the backfill, and that
\* number is positive.
C19_DeficitOnly ==
    \A k \in 1..Len(last.scraped) :
        /\ last.scraped[k].max_results > 0
        /\ last.op = "load_portal_calls"
           => last.scraped[k].max_results = LIMIT - Len(Available)
        /\ last.op = "load_all_calls"
           => last.scraped[k].max_results
              = LIMIT - Len(CachedValid(last.scraped[k].portal, LIMIT))
        /\ last.op = "cached_scrape"
           => last.scraped[k].max_results
              = last.max_results - Len(CachedValid(last.portal, last.max_results))
        /\ last.op \in {"load_national_calls", "load_all_national_calls"}
           => last.scraped[k].max_results
              = LIMIT - Len(NationalCachedValid(last.scraped[k].portal))

\* C20. Persisted order: every portal file that load_portal_calls,
\* load_all_calls, cached_scrape or scrape_eu_calls has rewritten holds its
\* records in the order of the key (deadline, title), and at most LIMIT of
\* them.
C20_PersistedOrder ==
    (last.op \in {"load_portal_calls", "load_all_calls", "cached_scrape", "scrape_eu_calls"}
     /\ ~last.raised)
    => \A p \in PortalNames :
          files[SlugOf[p]] # last.before[SlugOf[p]]
          => \E written \in {load_cache(files, SlugOf[p])} :
                /\ Len(written) <= LIMIT
                /\ \A i \in 1..(Len(written) - 1) : ~KeyLess(written[i + 1], written[i])

\* the step-by-step run and load_all_calls agree on the files and the list
\* when every portal answers alike
StepsAgree ==
    (run.pc = "idle" /\ run.log # <<>> /\ (last.raised => run.web = "down"))
    => \E o \in {load_all_calls(run.before, RunQuery, run.web)} :
          /\ o.raised = last.raised
          /\ o.ret = last.ret
          /\ o.files = files
          /\ o.scraped = last.scraped

\* the events of the log before position k
EarlierEvents(k) == {run.log[j] : j \in 1..(k - 1)}

\* C21. Sequential processing in "all" mode: load_all_calls handles the
\* sources one after another in the order of portal_map; the file of source
\* i is written before any cache read or scraper call for source i+1; the
\* "all" file is written at most once, as the last event and after the file
\* of every source has been written, and exactly once by a call that
\* returns.
C21_SequentialAllMode ==
    /\ \A k \in 1..Len(run.log) :
          /\ \A e \in EarlierEvents(k) : e.i <= run.log[k].i \/ run.log[k].ev = "write_all"
          /\ (run.log[k].ev \in {"read", "scrape"} /\ run.log[k].i > 1)
             => Event("write", run.log[k].i - 1) \in EarlierEvents(k)
          /\ run.log[k].ev = "write_all"
             => /\ k = Len(run.log)
                /\ \A i \in 1..Len(PortalOrder) : Event("write", i) \in EarlierEvents(k)
    /\ (run.pc = "idle" /\ run.log # <<>> /\ ~last.raised)
       => Cardinality({k \in 1..Len(run.log) : run.log[k].ev = "write_all"}) = 1

\* a call that scraped for every source has returned
C21_Witness ==
    /\ run.pc = "idle"
    /\ ~last.raised
    /\ \A i \in 1..Len(PortalOrder) :
          \E k \in 1..Len(run.log) : run.log[k] = Event("scrape", i)
    /\ run.log[Len(run.log)] = Event("write_all", 0)
    /\ \A i \in 1..Len(PortalOrder) : files[SlugOf[PortalOrder[i]]] # <<>>

\* C22. Filter-match invariant: every record returned by load_portal_calls,
\* load_all_calls or cached_scrape matches the keyword of the call (a
\* case-insensitive substring of the title or the description, or no
\* keyword) and its SDG filter (a member of ods_list, or no filter),
\* whatever the cache files, the "all" file and the scraper supplied.
C22_FilterMatch ==
    (last.op \in {"load_portal_calls", "load_all_calls", "cached_scrape"} /\ ~last.raised)
    => \A i \in 1..Len(last.ret) :
          /\ MatchesKeyword(last.ret[i], last.keyword)
          /\ MatchesOds(last.ret[i], ods_number)

\* the records of a list that fail the filters of the last call
Unmatching(calls) ==
    {i \in 1..Len(calls) : \/ ~MatchesKeyword(calls[i], last.keyword)
                           \/ ~MatchesOds(calls[i], ods_number)}

\* a load_portal_calls with a keyword found non-matching records in the
\* portal's file and in the "all" file, was handed non-matching records by
\* the scraper, and returned some records
C22_Witness ==
    /\ last.op = "load_portal_calls"
    /\ ~last.raised
    /\ last.keyword # EmptyStr
    /\ last.ret # <<>>
    /\ Unmatching(load_cache(last.before, SlugOf[last.portal])) # {}
    /\ Unmatching(load_cache(last.before, AllSlug)) # {}
    /\ last.web = "raw"
    /\ last.scraped # <<>>
    /\ Unmatching(Listing[last.portal]) # {}

\* a record whose deadline is empty or fits no format of parse_date_generic
Undated(call) == ParsedDeadline[call.deadline_date] = NoDate

\* the record passes the SDG and keyword filters of the last call
PassesFilters(call) ==
    MatchesKeyword(call, last.keyword) /\ MatchesOds(call, ods_number)

\* the record passes the call-type filter of the last national call
PassesType(call) == last.call_type = "All" \/ call.type = last.call_type

\* the list has a record with the link of the call
HasLink(calls, call) == \E i \in 1..Len(calls) : calls[i].link = call.link

\* the elements of a list
Elements(calls) == {calls[i] : i \in 1..Len(calls)}

\* the days the deadline test is tried on
DaysTried == {Day0 - 365, Day0 - 7, Day0, Day0 + 1, Day0 + 7, Day0 + 365}

\* the deadline test on every deadline string that parse_date_generic
\* cannot read, on every day tried
UndatedNeverExpired ==
    \A d \in DeadlinePool : \A day \in DaysTried :
        parse_date_generic(d) = NoDate => ~IsExpired([deadline_date |-> d], day)

\* C23. Permissive expiry: a record whose deadline_date is empty or fits
\* none of the formats of parse_date_generic is never classified as
\* expired, on any day; a loop of the engine that did not reach its cap kept
\* every such record that passed its other tests: the cached rows, the rows
\* of the "all" file, the scraper's calls, and the rows and calls of the
\* national loops.
C23_PermissiveExpiry ==
    /\ UndatedNeverExpired
    /\ (last.op = "load_portal_calls" /\ ~last.raised /\ Len(last.ret) < LIMIT)
       => /\ \A c \in Elements(load_cache(last.before, SlugOf[last.portal])) :
                (Undated(c) /\ PassesFilters(c)) => HasLink(last.ret, c)
          /\ \A c \in Elements(load_cache(last.before, AllSlug)) :
                (Undated(c) /\ PassesFilters(c) /\ SlugOf[c.site] = SlugOf[last.portal])
                => HasLink(last.ret, c)
          /\ (last.web = "raw" /\ last.scraped # <<>> /\ last.portal # EuropeanCommission)
             => \A c \in Elements(Listing[last.portal]) :
                   (Undated(c) /\ PassesFilters(c) /\ c.link # NoLink)
                   => HasLink(last.ret, c)
    /\ (last.op = "load_national_calls" /\ Len(last.ret) < LIMIT)
       => /\ \A c \in Elements(load_national_cache(last.national_before,
                       <<MINISTRY_SLUGS[last.portal], CALLTYPE_SLUGS[last.call_type]>>)) :
                (Undated(c) /\ PassesType(c)) => HasLink(last.ret, c)
          /\ (last.web = "raw" /\ last.scraped # <<>>)
             => \A c \in Elements(MinistryListing[last.portal]) :
                   (Undated(c) /\ PassesType(c) /\ c.link # NoLink)
                   => HasLink(last.ret, c)

\* a search below the cap kept an undated record of the portal's file and
\* an undated call of the scraper
C23_Witness ==
    /\ last.op = "load_portal_calls"
    /\ ~last.raised
    /\ Len(last.ret) < LIMIT
    /\ last.web = "raw"
    /\ last.scraped # <<>>
    /\ last.portal # EuropeanCommission
    /\ \E c \in Elements(load_cache(last.before, SlugOf[last.portal])) :
          Undated(c) /\ PassesFilters(c) /\ c \in Elements(last.ret)
    /\ \E c \in Elements(Listing[last.portal]) :
          /\ Undated(c) /\ PassesFilters(c)
          /\ c \in Elements(last.ret)
          /\ ~HasLink(load_cache(last.before, SlugOf[last.portal]), c)

\* a search for royalty calls of the ministry returned, up to the cap, every
\* call its scraper handed over that has a link and is not expired
RoyaltyCallsReturned(ministry) ==
    (/\ last.op = "load_national_calls"
     /\ last.portal = ministry
     /\ last.call_type = "Regalias"
     /\ last.scraped # <<>>)
    => \A c \in Elements(ministry_scraper(ministry, last.scraped[1].max_results, last.web)) :
          (c.link # NoLink /\ ~IsExpired(c, last.today))
          => HasLink(last.ret, c) \/ Len(last.ret) = LIMIT

\* C24. MinAmbiente calls are royalty calls: with call type "Regalias" a
\* call returned by scrape_minambiente_calls that is not expired passes the
\* call-type filter of load_national_calls and is in the result for the
\* ministry MinAmbiente.
C24_MinAmbienteRoyalty == RoyaltyCallsReturned("MinAmbiente")

\* the rows of the "all" file that carry the slug of the portal are the rows
\* of the portal's file
InSync(portal_name) ==
    {files[AllSlug][n] : n \in {k \in 1..Len(files[AllSlug]) :
                                   SlugOf[files[AllSlug][k].site] = SlugOf[portal_name]}}
    = {files[SlugOf[portal_name]][n] : n \in 1..Len(files[SlugOf[portal_name]])}

\* load_portal_calls writes nothing when its scraper raises
C25_PortalCallAtomic ==
    (last.op = "load_portal_calls" /\ last.raised) => files = last.before

\* C25. Failure atomicity: when a scraper raises part-way through
\* load_all_calls or load_portal_calls, no file of a source has been
\* rewritten without the matching update of the "all" file: every source
\* whose file the call changed is in sync with the "all" file.
C25_FailureAtomicity ==
    (last.op \in {"load_all_calls", "load_portal_calls"} /\ last.raised /\ run.pc = "idle")
    => \A p \in PortalNames :
          files[SlugOf[p]] # last.before[SlugOf[p]] => InSync(p)

\* only load_portal_calls and load_all_calls have run so far
OnlyPortalAndAllCalls ==
    /\ last.op \in {"none", "load_portal_calls", "load_all_calls"}
    /\ prev.op \in {"none", "load_portal_calls", "load_all_calls"}

\* the rows of the "all" file that come from the source
RowsOfSource(portal_name) ==
    {i \in 1..Len(files[AllSlug]) : files[AllSlug][i].site = ScraperSite[portal_name]}

\* at most ten rows of the "all" file come from each source
C26_TenPerSource ==
    OnlyPortalAndAllCalls
    => \A p \in PortalNames : Cardinality(RowsOfSource(p)) <= LIMIT

\* C26. Bounded "all" partition: starting from empty caches, after any
\* sequence of load_portal_calls and load_all_calls runs for one (theme,
\* SDG), the "all" file holds no two records with the same link and at most
\* 10 records of each source, at most 60 in all.
C26_BoundedAll ==
    OnlyPortalAndAllCalls
    => /\ \A i, j \in 1..Len(files[AllSlug]) :
             i # j => files[AllSlug][i].link # files[AllSlug][j].link
       /\ \A p \in PortalNames : Cardinality(RowsOfSource(p)) <= LIMIT
       /\ Len(files[AllSlug]) <= Len(PortalOrder) * LIMIT

\* the call c wrote the file of the portal: a load_all_calls, or a
\* load_portal_calls for the portal that went past its cache-hit return
WroteFile(c, portal_name) ==
    /\ ~c.raised
    /\ \/ c.op = "load_all_calls"
       \/ /\ c.op = "load_portal_calls"
          /\ c.portal = portal_name
          /\ ~CacheHit(FilterCached(load_cache(c.before, SlugOf[portal_name]), LIMIT,
                                    [Query EXCEPT !.today = c.today, !.keyword = c.keyword]),
                       LIMIT)

\* the records of the list that are not expired on the day and do not
\* match the keyword
ValidUnmatched(calls, kw, day) ==
    {c \in Elements(calls) : ~IsExpired(c, day) /\ ~MatchesKeyword(c, kw)}

\* C27. Keyword narrowing of the partition: the keyword is not part of the
\* cache signature; after a top-up of a source run with keyword K every
\* record stored in the source's file matches K, the cached records that
\* are not expired and do not match K are not carried forward, and a later
\* search of the same signature finds none of them in the file.
C27_KeywordNarrowing ==
    /\ \A p \in PortalNames :
          WroteFile(last, p)
          => /\ \A c \in Elements(load_cache(files, SlugOf[p])) :
                   MatchesKeyword(c, last.keyword)
             /\ ValidUnmatched(load_cache(last.before, SlugOf[p]), last.keyword, last.today)
                \cap Elements(load_cache(files, SlugOf[p])) = {}
    /\ \A p \in PortalNames :
          (WroteFile(prev, p) /\ last.op = "load_portal_calls" /\ last.portal = p)
          => ValidUnmatched(load_cache(prev.before, SlugOf[p]), prev.keyword, prev.today)
             \cap Elements(load_cache(last.before, SlugOf[p])) = {}

\* a top-up with a keyword dropped cached records that were not expired,
\* and a search of the same portal without a keyword followed
C27_Witness ==
    /\ prev.op = "load_portal_calls"
    /\ prev.keyword # EmptyStr
    /\ WroteFile(prev, prev.portal)
    /\ prev.scraped # <<>>
    /\ ValidUnmatched(load_cache(prev.before, SlugOf[prev.portal]), prev.keyword, prev.today) # {}
    /\ last.op = "load_portal_calls"
    /\ last.portal = prev.portal
    /\ last.keyword = EmptyStr
    /\ ~last.raised
    /\ load_cache(last.before, SlugOf[last.portal]) # <<>>

\* the last call of the kind left every cache file as it was and called no
\* scraper
ReadOnly(op) ==
    last.op = op
    => /\ last.scraped = <<>>
       /\ files = last.before
       /\ national_files = last.national_before

\* the Search CSV handlers and load_national_calls without scraping write
\* no file and call no scraper
C28_ReadOnlyOthers ==
    /\ ReadOnly("search_csv_international")
    /\ ReadOnly("search_csv_national")
    /\ ReadOnly("load_national_calls no scrape")

\* C28. No-scrape mode is read-only: an operation run without scraping
\* (search_csv_international, search_csv_national, load_national_calls and
\* load_portal_calls with scrape_if_needed=False) invokes no scraper and
\* leaves every cache file unchanged.
C28_NoScrapeReadOnly ==
    /\ C28_ReadOnlyOthers
    /\ ReadOnly("load_portal_calls no scrape")

\* C29. EU pagination terminates: the page loop of scrape_eu_calls ends
\* after requesting at most 10 listing pages, at most 5 when no page shows a
\* call, and requests no page once `needed` new calls have been accepted
\* (len(filtered_cache) + len(new_calls) has reached max_results), also
\* when the pages are empty or hold only rejected candidates.
C29_EuPaginationEnds ==
    last.op = "scrape_eu_calls"
    => /\ Len(last.pages) <= 10
       /\ \A k \in 1..(Len(last.pages) - 1) : last.pages[k] < last.max_results
       /\ last.web = "empty" => Len(last.pages) <= 5

\* the portal answered every request with calls the loop rejected, and the
\* loop ended after the tenth page with fewer calls than asked for
C29_Witness ==
    /\ last.op = "scrape_eu_calls"
    /\ last.web = "stale"
    /\ Len(last.pages) = 10
    /\ last.pages[10] < last.max_results
    /\ Len(last.ret) < last.max_results

\* the portal showed no call on any page, and the loop ended
C29_WitnessEmpty ==
    /\ last.op = "scrape_eu_calls"
    /\ last.web = "empty"
    /\ Len(last.pages) = 5
    /\ ~last.raised

\* the loop ended on the page that brought the last call asked for
C29_WitnessReached ==
    /\ last.op = "scrape_eu_calls"
    /\ last.pages # <<>>
    /\ last.pages[Len(last.pages)] = last.max_results

\* the national file the last call worked on, as load_national_cache reads it
NationalReloaded ==
    load_national_cache(national_files,
                        <<MINISTRY_SLUGS[last.portal], CALLTYPE_SLUGS[last.call_type]>>)

\* the last call was a load_national_calls that saved its list (the list it
\* returned holds the saved records, sorted)
NationalSaved == last.op = "load_national_calls" /\ last.scraped # <<>>

\* the records with one SDG (or "unknown") are read back as they were saved
C30_SingleSdgRoundTrip ==
    NationalSaved
    => /\ Len(NationalReloaded) = Len(last.ret)
       /\ \A c \in Elements(last.ret) :
             Len(c.ods_list) = 1 => c \in Elements(NationalReloaded)
       /\ \A i \in 1..Len(NationalReloaded) :
             \E c \in Elements(last.ret) :
                /\ c.site = NationalReloaded[i].site
                /\ c.type = NationalReloaded[i].type
                /\ c.link = NationalReloaded[i].link

\* C30. National cache round-trip: save_national_cache followed by
\* load_national_cache on the same (ministry, call type) returns records
\* equal to the ones saved: the same ods_list, also for a record classified
\* under more than one SDG, and the same site and type.
C30_NationalRoundTrip ==
    NationalSaved => Elements(NationalReloaded) = Elements(last.ret)

====
